---- MODULE Spec2Model ----
(***************************************************************************)
(* The MusicAlbumNFT ledger as a state machine over EVM transactions: the  *)
(* album contract (src/unnamed/part_002) under Spec, with its read         *)
(* operations under SpecViews, with a choice of constructor arguments      *)
(* under SpecDeploy, with a change of administrator under SpecOwners and   *)
(* with the repetition, once the ledger is unpaused, of a call turned down *)
(* by the pause under SpecRetry; and the contract without albums           *)
(* (src/contracts/MusicAlbumNFT.sol) under SpecFlat.  The scripts that     *)
(* deploy and fill the contracts run against the same ledger: the album    *)
(* deployment script under SpecAlbumScript, the mint script of the         *)
(* contract without albums under SpecMintScript.                           *)
(*                                                                         *)
(* chain  : the world state a transaction reads and writes: the contract's *)
(*          storage and the ether balances.                                *)
(* stack  : the calls of the running transaction that are suspended in an  *)
(*          external call (the onERC721Received hook of _safeMint, or an   *)
(*          ether dispatch of purchaseTrack); each frame keeps the world   *)
(*          state at its entry, which a revert restores, and the events    *)
(*          emitted since, which a revert discards.                        *)
(* last   : the call that completed most recently, with its outcome.       *)
(* ncalls : the number of calls made so far that passed their checks.       *)
(* script : the position and the records of the deployment script that is   *)
(*          running against the ledger (scripts/deploy.js under             *)
(*          SpecAlbumScript, scripts/mint.js under SpecMintScript), or      *)
(*          NoScript when the calls come from the accounts themselves.      *)
(***************************************************************************)
EXTENDS Integers, Sequences, FiniteSets, TLC

VARIABLES chain, stack, last, ncalls, script

vars == <<chain, stack, last, ncalls, script>>

----------------------------------------------------------------------------
(* Bounds of the model *)

MaxAlbums == 1
MaxTokens == 2
MaxOps == 5
MaxDepth == 2
MaxNested == 1
MaxRelayed == 1

(* Program constant *)
ROYALTY_DENOMINATOR == 100

----------------------------------------------------------------------------
(* Identities.  Every account may be a contract: when it is handed control *)
(* (a token receipt hook, an ether receipt) it may call back into the      *)
(* ledger, accept, or reject.  An externally owned account is the case     *)
(* that always accepts at once.                                            *)

Deployer == "admin"
Addr == {"admin", "alice", "bob"}
ZERO == "0x0"
LEDGER == "ledger"

Albums == 1 .. MaxAlbums
Tokens == 1 .. MaxTokens
(* Storage holds one id more than the model ever issues. *)
AlbumSlots == 1 .. (MaxAlbums + 1)
TokenSlots == 1 .. (MaxTokens + 1)
MaxTrackNo == 3
TrackNos == 0 .. MaxTrackNo

NOT_ENTERED == 1
ENTERED == 2

EmptyAlbum ==
    [name |-> "", uri |-> "", totalTracks |-> 0, maxSupply |-> 0,
     currentSupply |-> 0, trackExists |-> [n \in TrackNos |-> FALSE],
     exists |-> FALSE]

EmptyTrack ==
    [name |-> "", uri |-> "", albumId |-> 0, trackNumber |-> 0, minPrice |-> 0,
     maxSupply |-> 0, currentSupply |-> 0, isForSale |-> FALSE, creator |-> ZERO]

InitialBalance == [a \in Addr \cup {LEDGER} |-> IF a \in Addr THEN 155 ELSE 0]

(* The constructor's require with any pair of royalties let through. *)
constructorRequire_Any(c, s) == c >= 0 /\ s >= 0

(* The constructor's require: the deployment reverts unless it holds. *)
constructorRequire(c, s) == c + s = ROYALTY_DENOMINATOR

(* The world state after the constructor has run with royalties (c, s). *)
constructor(c, s) ==
    [_owner |-> Deployer,
     _paused |-> FALSE,
     _status |-> NOT_ENTERED,
     creatorRoyalty |-> c,
     sellerRoyalty |-> s,
     _tokenIds |-> 0,
     _albumIds |-> 0,
     albums |-> [a \in AlbumSlots |-> EmptyAlbum],
     tracks |-> [t \in TokenSlots |-> EmptyTrack],
     albumTrackToToken |-> [a \in AlbumSlots |-> [n \in TrackNos |-> 0]],
     _owners |-> [t \in TokenSlots |-> ZERO],
     balance |-> InitialBalance]

----------------------------------------------------------------------------
(* Outcomes of running a call up to its next external call or to its end.  *)

NoLoc == [newTokenId |-> 0, originalTokenId |-> 0, seller |-> ZERO,
          creatorAmount |-> 0, sellerAmount |-> 0]

Done(s, ret, loc) == [kind |-> "done", st |-> s, err |-> "ok", ret |-> ret, loc |-> loc,
                      pc |-> "", to |-> ZERO, log |-> <<>>]

(* A revert: the world state is the one at the entry of the call. *)
Revert(s0, e) == [kind |-> "done", st |-> s0, err |-> e, ret |-> 0, loc |-> NoLoc,
                  pc |-> "", to |-> ZERO, log |-> <<>>]

(* The call is suspended at pc while `to` holds control. *)
Wait(s, p, r, loc) == [kind |-> "wait", st |-> s, err |-> "", ret |-> 0, loc |-> loc,
                       pc |-> p, to |-> r, log |-> <<>>]

(* The events.  An event is a record of its kind with its arguments: the   *)
(* integers (nums), the addresses (who), the string (text) and the boolean *)
(* (flag), each empty when the kind has none.  The log field of an         *)
(* outcome holds the events emitted on the way to it, in order.            *)
Event(kind, nums, who, text, flag) ==
    [kind |-> kind, nums |-> nums, who |-> who, text |-> text, flag |-> flag]

AlbumCreated(albumId, name, totalTracks, maxSupply) ==
    Event("AlbumCreated", <<albumId, totalTracks, maxSupply>>, <<>>, name, FALSE)

TrackMinted(tokenId, albumId, trackNumber, name, owner) ==
    Event("TrackMinted", <<tokenId, albumId, trackNumber>>, <<owner>>, name, FALSE)

TrackMinPriceUpdated(tokenId, newMinPrice) ==
    Event("TrackMinPriceUpdated", <<tokenId, newMinPrice>>, <<>>, "", FALSE)

TrackSaleStatusUpdated(tokenId, isForSale) ==
    Event("TrackSaleStatusUpdated", <<tokenId>>, <<>>, "", isForSale)

TrackPurchased(tokenId, buyer, price) ==
    Event("TrackPurchased", <<tokenId, price>>, <<buyer>>, "", FALSE)

RoyaltyUpdated(c, s) == Event("RoyaltyUpdated", <<c, s>>, <<>>, "", FALSE)

MaxSupplyUpdated(albumId, trackNumber, maxSupply) ==
    Event("MaxSupplyUpdated", <<albumId, trackNumber, maxSupply>>, <<>>, "", FALSE)

(* The events of the contracts inherited from *)
Transfer(from, to, tokenId) == Event("Transfer", <<tokenId>>, <<from, to>>, "", FALSE)

Paused(account) == Event("Paused", <<>>, <<account>>, "", FALSE)

Unpaused(account) == Event("Unpaused", <<>>, <<account>>, "", FALSE)

OwnershipTransferred(previousOwner, newOwner) ==
    Event("OwnershipTransferred", <<>>, <<previousOwner, newOwner>>, "", FALSE)

(* The events of the contract without albums *)
MusicMinted(tokenId, name, owner) ==
    Event("MusicMinted", <<tokenId>>, <<owner>>, name, FALSE)

MusicMinPriceUpdated(tokenId, newMinPrice) ==
    Event("MusicMinPriceUpdated", <<tokenId, newMinPrice>>, <<>>, "", FALSE)

MusicSaleStatusUpdated(tokenId, isForSale) ==
    Event("MusicSaleStatusUpdated", <<tokenId>>, <<>>, "", isForSale)

MusicPurchased(tokenId, buyer, price) ==
    Event("MusicPurchased", <<tokenId, price>>, <<buyer>>, "", FALSE)

(* emit: the outcome with one more event. *)
Emit(out, e) == [out EXCEPT !.log = Append(@, e)]

_exists(s, tokenId) == tokenId \in TokenSlots /\ s._owners[tokenId] # ZERO

AlbumExists(s, albumId) == albumId \in AlbumSlots /\ s.albums[albumId].exists

TrackExists(s, albumId, n) == n \in TrackNos /\ s.albums[albumId].trackExists[n]

----------------------------------------------------------------------------
(* Entry points that make no external call *)

(* createAlbum without onlyOwner. *)
createAlbum_AnyCaller(s, sender, a) ==
    IF a.name = "" THEN Revert(s, "ValidationError")
    ELSE IF a.uri = "" THEN Revert(s, "ValidationError")
    ELSE IF ~(a.totalTracks > 0) THEN Revert(s, "ValidationError")
    ELSE IF ~(a.maxSupply > 0) THEN Revert(s, "ValidationError")
    ELSE LET newAlbumId == s._albumIds + 1
             newAlbum == [name |-> a.name, uri |-> a.uri, totalTracks |-> a.totalTracks,
                          maxSupply |-> a.maxSupply, currentSupply |-> 0,
                          trackExists |-> [n \in TrackNos |-> FALSE], exists |-> TRUE]
         IN  Emit(Done([s EXCEPT !._albumIds = newAlbumId, !.albums[newAlbumId] = newAlbum],
                       newAlbumId, NoLoc),
                  AlbumCreated(newAlbumId, a.name, a.totalTracks, a.maxSupply))

(* createAlbum gated by the pause. *)
createAlbum_WhenNotPaused(s, sender, a) ==
    IF sender # s._owner THEN Revert(s, "Unauthorized")
    ELSE IF s._paused THEN Revert(s, "SystemPaused")
    ELSE IF a.name = "" THEN Revert(s, "ValidationError")
    ELSE IF a.uri = "" THEN Revert(s, "ValidationError")
    ELSE IF ~(a.totalTracks > 0) THEN Revert(s, "ValidationError")
    ELSE IF ~(a.maxSupply > 0) THEN Revert(s, "ValidationError")
    ELSE LET newAlbumId == s._albumIds + 1
             newAlbum == [name |-> a.name, uri |-> a.uri, totalTracks |-> a.totalTracks,
                          maxSupply |-> a.maxSupply, currentSupply |-> 0,
                          trackExists |-> [n \in TrackNos |-> FALSE], exists |-> TRUE]
         IN  Emit(Done([s EXCEPT !._albumIds = newAlbumId, !.albums[newAlbumId] = newAlbum],
                       newAlbumId, NoLoc),
                  AlbumCreated(newAlbumId, a.name, a.totalTracks, a.maxSupply))

createAlbum(s, sender, a) ==
    IF sender # s._owner THEN Revert(s, "Unauthorized")
    ELSE IF a.name = "" THEN Revert(s, "ValidationError")
    ELSE IF a.uri = "" THEN Revert(s, "ValidationError")
    ELSE IF ~(a.totalTracks > 0) THEN Revert(s, "ValidationError")
    ELSE IF ~(a.maxSupply > 0) THEN Revert(s, "ValidationError")
    ELSE LET newAlbumId == s._albumIds + 1
             newAlbum == [name |-> a.name, uri |-> a.uri, totalTracks |-> a.totalTracks,
                          maxSupply |-> a.maxSupply, currentSupply |-> 0,
                          trackExists |-> [n \in TrackNos |-> FALSE], exists |-> TRUE]
         IN  Emit(Done([s EXCEPT !._albumIds = newAlbumId, !.albums[newAlbumId] = newAlbum],
                       newAlbumId, NoLoc),
                  AlbumCreated(newAlbumId, a.name, a.totalTracks, a.maxSupply))

(* setRoyalty gated by the pause. *)
setRoyalty_WhenNotPaused(s, sender, a) ==
    IF sender # s._owner THEN Revert(s, "Unauthorized")
    ELSE IF s._paused THEN Revert(s, "SystemPaused")
    ELSE IF a.creatorRoyalty + a.sellerRoyalty # ROYALTY_DENOMINATOR
         THEN Revert(s, "ValidationError")
    ELSE Emit(Done([s EXCEPT !.creatorRoyalty = a.creatorRoyalty,
                             !.sellerRoyalty = a.sellerRoyalty], 0, NoLoc),
              RoyaltyUpdated(a.creatorRoyalty, a.sellerRoyalty))

setRoyalty(s, sender, a) ==
    IF sender # s._owner THEN Revert(s, "Unauthorized")
    ELSE IF a.creatorRoyalty + a.sellerRoyalty # ROYALTY_DENOMINATOR
         THEN Revert(s, "ValidationError")
    ELSE Emit(Done([s EXCEPT !.creatorRoyalty = a.creatorRoyalty,
                             !.sellerRoyalty = a.sellerRoyalty], 0, NoLoc),
              RoyaltyUpdated(a.creatorRoyalty, a.sellerRoyalty))

setTrackMaxSupply(s, sender, a) ==
    IF sender # s._owner THEN Revert(s, "Unauthorized")
    ELSE IF ~AlbumExists(s, a.albumId) THEN Revert(s, "NotFound")
    ELSE IF ~TrackExists(s, a.albumId, a.trackNumber) THEN Revert(s, "NotFound")
    ELSE LET tokenId == s.albumTrackToToken[a.albumId][a.trackNumber]
         IN  IF ~(a.newMaxSupply >= s.tracks[tokenId].currentSupply)
             THEN Revert(s, "ValidationError")
             ELSE Emit(Done([s EXCEPT !.tracks[tokenId].maxSupply = a.newMaxSupply], 0, NoLoc),
                       MaxSupplyUpdated(a.albumId, a.trackNumber, a.newMaxSupply))

(* setAlbumMaxSupply that also sets the number of track slots. *)
setAlbumMaxSupply_Resizes(s, sender, a) ==
    IF sender # s._owner THEN Revert(s, "Unauthorized")
    ELSE IF ~AlbumExists(s, a.albumId) THEN Revert(s, "NotFound")
    ELSE IF ~(a.newMaxSupply >= s.albums[a.albumId].currentSupply)
         THEN Revert(s, "ValidationError")
    ELSE Emit(Done([s EXCEPT !.albums[a.albumId].maxSupply = a.newMaxSupply,
                             !.albums[a.albumId].totalTracks = a.newMaxSupply], 0, NoLoc),
              MaxSupplyUpdated(a.albumId, 0, a.newMaxSupply))

setAlbumMaxSupply(s, sender, a) ==
    IF sender # s._owner THEN Revert(s, "Unauthorized")
    ELSE IF ~AlbumExists(s, a.albumId) THEN Revert(s, "NotFound")
    ELSE IF ~(a.newMaxSupply >= s.albums[a.albumId].currentSupply)
         THEN Revert(s, "ValidationError")
    ELSE Emit(Done([s EXCEPT !.albums[a.albumId].maxSupply = a.newMaxSupply], 0, NoLoc),
              MaxSupplyUpdated(a.albumId, 0, a.newMaxSupply))

(* updateTrackPrice that sets the price of every token of the track. *)
updateTrackPrice_AllCopies(s, sender, a) ==
    IF sender # s._owner THEN Revert(s, "Unauthorized")
    ELSE IF ~_exists(s, a.tokenId) THEN Revert(s, "NotFound")
    ELSE Emit(Done([s EXCEPT !.tracks =
                       [t \in TokenSlots |->
                           IF /\ s.tracks[t].albumId = s.tracks[a.tokenId].albumId
                              /\ s.tracks[t].trackNumber = s.tracks[a.tokenId].trackNumber
                           THEN [s.tracks[t] EXCEPT !.minPrice = a.newMinPrice]
                           ELSE s.tracks[t]]], 0, NoLoc),
              TrackMinPriceUpdated(a.tokenId, a.newMinPrice))

updateTrackPrice(s, sender, a) ==
    IF sender # s._owner THEN Revert(s, "Unauthorized")
    ELSE IF ~_exists(s, a.tokenId) THEN Revert(s, "NotFound")
    ELSE Emit(Done([s EXCEPT !.tracks[a.tokenId].minPrice = a.newMinPrice], 0, NoLoc),
              TrackMinPriceUpdated(a.tokenId, a.newMinPrice))

(* updateTrackSaleStatus that emits nothing. *)
updateTrackSaleStatus_Silent(s, sender, a) ==
    IF sender # s._owner THEN Revert(s, "Unauthorized")
    ELSE IF ~_exists(s, a.tokenId) THEN Revert(s, "NotFound")
    ELSE Done([s EXCEPT !.tracks[a.tokenId].isForSale = a.isForSale], 0, NoLoc)

updateTrackSaleStatus(s, sender, a) ==
    IF sender # s._owner THEN Revert(s, "Unauthorized")
    ELSE IF ~_exists(s, a.tokenId) THEN Revert(s, "NotFound")
    ELSE Emit(Done([s EXCEPT !.tracks[a.tokenId].isForSale = a.isForSale], 0, NoLoc),
              TrackSaleStatusUpdated(a.tokenId, a.isForSale))

(* pause that succeeds without effect when the ledger is already paused. *)
pause_Idempotent(s, sender) ==
    IF sender # s._owner THEN Revert(s, "Unauthorized")
    ELSE Emit(Done([s EXCEPT !._paused = TRUE], 0, NoLoc),
              Paused(sender))

(* unpause that leaves the ledger paused. *)
unpause_NoEffect(s, sender) ==
    IF sender # s._owner THEN Revert(s, "Unauthorized")
    ELSE IF ~s._paused THEN Revert(s, "NotPaused")
    ELSE Emit(Done(s, 0, NoLoc),
              Unpaused(sender))

(* Pausable._pause is itself whenNotPaused, _unpause is whenPaused. *)
pause(s, sender) ==
    IF sender # s._owner THEN Revert(s, "Unauthorized")
    ELSE IF s._paused THEN Revert(s, "SystemPaused")
    ELSE Emit(Done([s EXCEPT !._paused = TRUE], 0, NoLoc),
              Paused(sender))

unpause(s, sender) ==
    IF sender # s._owner THEN Revert(s, "Unauthorized")
    ELSE IF ~s._paused THEN Revert(s, "NotPaused")
    ELSE Emit(Done([s EXCEPT !._paused = FALSE], 0, NoLoc),
              Unpaused(sender))

(* transferFrom that any account can make, whoever holds the token. *)
transferFrom_ByAnyone(s, sender, a) ==
    IF ~_exists(s, a.tokenId) THEN Revert(s, "NotFound")
    ELSE Emit(Done([s EXCEPT !._owners[a.tokenId] = a.to], 0, NoLoc),
              Transfer(s._owners[a.tokenId], a.to, a.tokenId))

(* ERC721.transferFrom, inherited: the holder of a token hands it on. *)
transferFrom(s, sender, a) ==
    IF ~_exists(s, a.tokenId) THEN Revert(s, "NotFound")
    ELSE IF sender # s._owners[a.tokenId] THEN Revert(s, "NotTokenOwner")
    ELSE Emit(Done([s EXCEPT !._owners[a.tokenId] = a.to], 0, NoLoc),
              Transfer(s._owners[a.tokenId], a.to, a.tokenId))

(* Ownable.transferOwnership, inherited: the administrator names its       *)
(* successor.                                                              *)
transferOwnership(s, sender, a) ==
    IF sender # s._owner THEN Revert(s, "Unauthorized")
    ELSE IF a.newOwner = ZERO THEN Revert(s, "ValidationError")
    ELSE Emit(Done([s EXCEPT !._owner = a.newOwner], 0, NoLoc),
              OwnershipTransferred(s._owner, a.newOwner))

----------------------------------------------------------------------------
(* Entry points that hand control to another account.  A frame fr holds    *)
(* the suspended call: fn, sender, args, value, snap (the world state at   *)
(* entry), pc, to (the account in control), loc (the call's locals),       *)
(* nested (the calls `to` has made back into the ledger during this        *)
(* external call and that passed their checks), relayed (such calls that   *)
(* other accounts made while `to` held control) and blocked (the entry     *)
(* points called back into that the reentrancy guard stopped).             *)

(* ERC721._mint: the token gets its first holder. *)
_mint(s, to, tokenId) == [s EXCEPT !._owners[tokenId] = to]

(* ERC721._transfer *)
_transfer(s, from, to, tokenId) == [s EXCEPT !._owners[tokenId] = to]

(* msg.value moves with the call. *)
Pay(s, from, to, amount) ==
    [s EXCEPT !.balance[from] = @ - amount, !.balance[to] = @ + amount]

(* mintTrack with whenNotPaused ahead of onlyOwner. *)
mintTrack_PauseFirst(s, sender, a) ==
    IF s._paused THEN Revert(s, "SystemPaused")
    ELSE IF sender # s._owner THEN Revert(s, "Unauthorized")
    ELSE IF ~AlbumExists(s, a.albumId) THEN Revert(s, "NotFound")
    ELSE IF ~(a.trackNumber > 0 /\ a.trackNumber <= s.albums[a.albumId].totalTracks)
         THEN Revert(s, "ValidationError")
    ELSE IF s.albums[a.albumId].trackExists[a.trackNumber] THEN Revert(s, "ValidationError")
    ELSE IF a.name = "" THEN Revert(s, "ValidationError")
    ELSE IF a.uri = "" THEN Revert(s, "ValidationError")
    ELSE IF ~(a.maxSupply > 0) THEN Revert(s, "ValidationError")
    ELSE LET newTokenId == s._tokenIds + 1
             s1 == _mint([s EXCEPT !._tokenIds = newTokenId], sender, newTokenId)
         IN  Emit(Wait(s1, "onERC721Received", sender, [NoLoc EXCEPT !.newTokenId = newTokenId]),
                  Transfer(ZERO, sender, newTokenId))

(* mintTrack up to the onERC721Received hook of _safeMint. *)
mintTrack(s, sender, a) ==
    IF sender # s._owner THEN Revert(s, "Unauthorized")
    ELSE IF s._paused THEN Revert(s, "SystemPaused")
    ELSE IF ~AlbumExists(s, a.albumId) THEN Revert(s, "NotFound")
    ELSE IF ~(a.trackNumber > 0 /\ a.trackNumber <= s.albums[a.albumId].totalTracks)
         THEN Revert(s, "ValidationError")
    ELSE IF s.albums[a.albumId].trackExists[a.trackNumber] THEN Revert(s, "ValidationError")
    ELSE IF a.name = "" THEN Revert(s, "ValidationError")
    ELSE IF a.uri = "" THEN Revert(s, "ValidationError")
    ELSE IF ~(a.maxSupply > 0) THEN Revert(s, "ValidationError")
    ELSE LET newTokenId == s._tokenIds + 1
             s1 == _mint([s EXCEPT !._tokenIds = newTokenId], sender, newTokenId)
         IN  Emit(Wait(s1, "onERC721Received", sender, [NoLoc EXCEPT !.newTokenId = newTokenId]),
                  Transfer(ZERO, sender, newTokenId))

(* mintTrackFinish with a cap failure that reports the error and keeps     *)
(* what has been written.                                                  *)
mintTrackFinish_NoRollback(s, fr, ok) ==
    IF ~ok THEN Revert(fr.snap, "ReceiverRejected")
    ELSE LET a == fr.args
             newTokenId == fr.loc.newTokenId
             track == [name |-> a.name, uri |-> a.uri, albumId |-> a.albumId,
                       trackNumber |-> a.trackNumber, minPrice |-> a.minPrice,
                       maxSupply |-> a.maxSupply, currentSupply |-> 1,
                       isForSale |-> TRUE, creator |-> fr.sender]
             s1 == [s EXCEPT !.tracks[newTokenId] = track,
                             !.albums[a.albumId].trackExists[a.trackNumber] = TRUE,
                             !.albums[a.albumId].currentSupply = @ + 1,
                             !.albumTrackToToken[a.albumId][a.trackNumber] = newTokenId]
         IN  IF ~(s1.albums[a.albumId].currentSupply <= s1.albums[a.albumId].maxSupply)
             THEN [Revert(fr.snap, "CapacityExceeded") EXCEPT !.st = s1]
             ELSE Emit(Done(s1, newTokenId, fr.loc),
                       TrackMinted(newTokenId, a.albumId, a.trackNumber, a.name, fr.sender))

(* mintTrackFinish with a token counter that a failed mint leaves          *)
(* advanced.                                                               *)
mintTrackFinish_CounterKept(s, fr, ok) ==
    IF ~ok THEN [Revert(fr.snap, "ReceiverRejected") EXCEPT
                    !.st = [fr.snap EXCEPT !._tokenIds = s._tokenIds]]
    ELSE LET a == fr.args
             newTokenId == fr.loc.newTokenId
             track == [name |-> a.name, uri |-> a.uri, albumId |-> a.albumId,
                       trackNumber |-> a.trackNumber, minPrice |-> a.minPrice,
                       maxSupply |-> a.maxSupply, currentSupply |-> 1,
                       isForSale |-> TRUE, creator |-> fr.sender]
             s1 == [s EXCEPT !.tracks[newTokenId] = track,
                             !.albums[a.albumId].trackExists[a.trackNumber] = TRUE,
                             !.albums[a.albumId].currentSupply = @ + 1,
                             !.albumTrackToToken[a.albumId][a.trackNumber] = newTokenId]
         IN  IF ~(s1.albums[a.albumId].currentSupply <= s1.albums[a.albumId].maxSupply)
             THEN [Revert(fr.snap, "CapacityExceeded") EXCEPT
                      !.st = [fr.snap EXCEPT !._tokenIds = s._tokenIds]]
             ELSE Emit(Done(s1, newTokenId, fr.loc),
                       TrackMinted(newTokenId, a.albumId, a.trackNumber, a.name, fr.sender))

(* mintTrackFinish with a track record that is not for sale. *)
mintTrackFinish_NotForSale(s, fr, ok) ==
    IF ~ok THEN Revert(fr.snap, "ReceiverRejected")
    ELSE LET a == fr.args
             newTokenId == fr.loc.newTokenId
             track == [name |-> a.name, uri |-> a.uri, albumId |-> a.albumId,
                       trackNumber |-> a.trackNumber, minPrice |-> a.minPrice,
                       maxSupply |-> a.maxSupply, currentSupply |-> 1,
                       isForSale |-> FALSE, creator |-> fr.sender]
             s1 == [s EXCEPT !.tracks[newTokenId] = track,
                             !.albums[a.albumId].trackExists[a.trackNumber] = TRUE,
                             !.albums[a.albumId].currentSupply = @ + 1,
                             !.albumTrackToToken[a.albumId][a.trackNumber] = newTokenId]
         IN  IF ~(s1.albums[a.albumId].currentSupply <= s1.albums[a.albumId].maxSupply)
             THEN Revert(fr.snap, "CapacityExceeded")
             ELSE Emit(Done(s1, newTokenId, fr.loc),
                       TrackMinted(newTokenId, a.albumId, a.trackNumber, a.name, fr.sender))

(* mintTrackFinish without the check of the album cap. *)
mintTrackFinish_NoCap(s, fr, ok) ==
    IF ~ok THEN Revert(fr.snap, "ReceiverRejected")
    ELSE LET a == fr.args
             newTokenId == fr.loc.newTokenId
             track == [name |-> a.name, uri |-> a.uri, albumId |-> a.albumId,
                       trackNumber |-> a.trackNumber, minPrice |-> a.minPrice,
                       maxSupply |-> a.maxSupply, currentSupply |-> 1,
                       isForSale |-> TRUE, creator |-> fr.sender]
             s1 == [s EXCEPT !.tracks[newTokenId] = track,
                             !.albums[a.albumId].trackExists[a.trackNumber] = TRUE,
                             !.albums[a.albumId].currentSupply = @ + 1,
                             !.albumTrackToToken[a.albumId][a.trackNumber] = newTokenId]
         IN  Emit(Done(s1, newTokenId, fr.loc),
                  TrackMinted(newTokenId, a.albumId, a.trackNumber, a.name, fr.sender))

(* mintTrack after the hook: the track record, the slot, the album supply  *)
(* and the album cap, which is checked last.                               *)
mintTrackFinish(s, fr, ok) ==
    IF ~ok THEN Revert(fr.snap, "ReceiverRejected")
    ELSE LET a == fr.args
             newTokenId == fr.loc.newTokenId
             track == [name |-> a.name, uri |-> a.uri, albumId |-> a.albumId,
                       trackNumber |-> a.trackNumber, minPrice |-> a.minPrice,
                       maxSupply |-> a.maxSupply, currentSupply |-> 1,
                       isForSale |-> TRUE, creator |-> fr.sender]
             s1 == [s EXCEPT !.tracks[newTokenId] = track,
                             !.albums[a.albumId].trackExists[a.trackNumber] = TRUE,
                             !.albums[a.albumId].currentSupply = @ + 1,
                             !.albumTrackToToken[a.albumId][a.trackNumber] = newTokenId]
         IN  IF ~(s1.albums[a.albumId].currentSupply <= s1.albums[a.albumId].maxSupply)
             THEN Revert(fr.snap, "CapacityExceeded")
             ELSE Emit(Done(s1, newTokenId, fr.loc),
                       TrackMinted(newTokenId, a.albumId, a.trackNumber, a.name, fr.sender))

(* mintAdditionalCopy without the check of the track cap. *)
mintAdditionalCopy_NoTrackCap(s, sender, a) ==
    IF sender # s._owner THEN Revert(s, "Unauthorized")
    ELSE IF s._paused THEN Revert(s, "SystemPaused")
    ELSE IF ~AlbumExists(s, a.albumId) THEN Revert(s, "NotFound")
    ELSE IF ~TrackExists(s, a.albumId, a.trackNumber) THEN Revert(s, "NotFound")
    ELSE LET originalTokenId == s.albumTrackToToken[a.albumId][a.trackNumber]
         IN  IF ~(s.albums[a.albumId].currentSupply < s.albums[a.albumId].maxSupply)
             THEN Revert(s, "CapacityExceeded")
             ELSE LET newTokenId == s._tokenIds + 1
                      s1 == _mint([s EXCEPT !._tokenIds = newTokenId], sender, newTokenId)
                  IN  Emit(Wait(s1, "onERC721Received", sender,
                                [NoLoc EXCEPT !.newTokenId = newTokenId,
                                              !.originalTokenId = originalTokenId]),
                           Transfer(ZERO, sender, newTokenId))

(* mintAdditionalCopy up to the onERC721Received hook of _safeMint. *)
mintAdditionalCopy(s, sender, a) ==
    IF sender # s._owner THEN Revert(s, "Unauthorized")
    ELSE IF s._paused THEN Revert(s, "SystemPaused")
    ELSE IF ~AlbumExists(s, a.albumId) THEN Revert(s, "NotFound")
    ELSE IF ~TrackExists(s, a.albumId, a.trackNumber) THEN Revert(s, "NotFound")
    ELSE LET originalTokenId == s.albumTrackToToken[a.albumId][a.trackNumber]
             track == s.tracks[originalTokenId]
         IN  IF ~(track.currentSupply < track.maxSupply) THEN Revert(s, "CapacityExceeded")
             ELSE IF ~(s.albums[a.albumId].currentSupply < s.albums[a.albumId].maxSupply)
                  THEN Revert(s, "CapacityExceeded")
             ELSE LET newTokenId == s._tokenIds + 1
                      s1 == _mint([s EXCEPT !._tokenIds = newTokenId], sender, newTokenId)
                  IN  Emit(Wait(s1, "onERC721Received", sender,
                                [NoLoc EXCEPT !.newTokenId = newTokenId,
                                              !.originalTokenId = originalTokenId]),
                           Transfer(ZERO, sender, newTokenId))

(* mintAdditionalCopyFinish without the count of the copy in the album. *)
mintAdditionalCopyFinish_NoAlbumCount(s, fr, ok) ==
    IF ~ok THEN Revert(fr.snap, "ReceiverRejected")
    ELSE LET newTokenId == fr.loc.newTokenId
             track == s.tracks[fr.loc.originalTokenId]
             copy == [name |-> track.name, uri |-> track.uri, albumId |-> track.albumId,
                      trackNumber |-> track.trackNumber, minPrice |-> track.minPrice,
                      maxSupply |-> track.maxSupply,
                      currentSupply |-> track.currentSupply + 1,
                      isForSale |-> TRUE, creator |-> track.creator]
             s1 == [s EXCEPT !.tracks[newTokenId] = copy]
             s2 == [s1 EXCEPT !.tracks[fr.loc.originalTokenId].currentSupply = @ + 1]
         IN  Emit(Done(s2, newTokenId, fr.loc),
                  TrackMinted(newTokenId, fr.args.albumId, fr.args.trackNumber, track.name, fr.sender))

(* mintAdditionalCopy after the hook: `track` is a storage reference, read *)
(* as the storage is now.                                                  *)
(* mintAdditionalCopyFinish that gives the copy the sale flag of the first *)
(* token.                                                                  *)
mintAdditionalCopyFinish_FlagInherited(s, fr, ok) ==
    IF ~ok THEN Revert(fr.snap, "ReceiverRejected")
    ELSE LET a == fr.args
             newTokenId == fr.loc.newTokenId
             track == s.tracks[fr.loc.originalTokenId]
             copy == [name |-> track.name, uri |-> track.uri, albumId |-> track.albumId,
                      trackNumber |-> track.trackNumber, minPrice |-> track.minPrice,
                      maxSupply |-> track.maxSupply,
                      currentSupply |-> track.currentSupply + 1,
                      isForSale |-> track.isForSale, creator |-> track.creator]
             s1 == [s EXCEPT !.tracks[newTokenId] = copy]
             s2 == [s1 EXCEPT !.tracks[fr.loc.originalTokenId].currentSupply = @ + 1,
                              !.albums[a.albumId].currentSupply = @ + 1]
         IN  Emit(Done(s2, newTokenId, fr.loc),
                  TrackMinted(newTokenId, fr.args.albumId, fr.args.trackNumber, track.name, fr.sender))

mintAdditionalCopyFinish(s, fr, ok) ==
    IF ~ok THEN Revert(fr.snap, "ReceiverRejected")
    ELSE LET a == fr.args
             newTokenId == fr.loc.newTokenId
             track == s.tracks[fr.loc.originalTokenId]
             copy == [name |-> track.name, uri |-> track.uri, albumId |-> track.albumId,
                      trackNumber |-> track.trackNumber, minPrice |-> track.minPrice,
                      maxSupply |-> track.maxSupply,
                      currentSupply |-> track.currentSupply + 1,
                      isForSale |-> TRUE, creator |-> track.creator]
             s1 == [s EXCEPT !.tracks[newTokenId] = copy]
             s2 == [s1 EXCEPT !.tracks[fr.loc.originalTokenId].currentSupply = @ + 1,
                              !.albums[a.albumId].currentSupply = @ + 1]
         IN  Emit(Done(s2, newTokenId, fr.loc),
                  TrackMinted(newTokenId, fr.args.albumId, fr.args.trackNumber, track.name, fr.sender))

(* The two creator/seller amounts of a payment. *)
creatorAmountOf(s, value) == (value * s.creatorRoyalty) \div ROYALTY_DENOMINATOR

(* The seller's amount as a rounded-down share of its own. *)
sellerAmountOf_Floored(s, value) == (value * s.sellerRoyalty) \div ROYALTY_DENOMINATOR

sellerAmountOf(s, value) == value - creatorAmountOf(s, value)

(* purchaseChecks with the self-purchase check ahead of the sale flag and  *)
(* the price.                                                              *)
purchaseChecks_SelfFirst(s, sender, a, value) ==
    IF ~_exists(s, a.tokenId) THEN "NotFound"
    ELSE IF sender = s._owners[a.tokenId] THEN "SelfPurchase"
    ELSE IF ~s.tracks[a.tokenId].isForSale THEN "NotForSale"
    ELSE IF ~(value >= s.tracks[a.tokenId].minPrice) THEN "InsufficientPayment"
    ELSE "ok"

(* The precondition checks of purchaseTrack, in the order of the code;    *)
(* "ok" when all pass.  s is the world state with the guard taken.        *)
purchaseChecks(s, sender, a, value) ==
    IF ~_exists(s, a.tokenId) THEN "NotFound"
    ELSE IF ~s.tracks[a.tokenId].isForSale THEN "NotForSale"
    ELSE IF ~(value >= s.tracks[a.tokenId].minPrice) THEN "InsufficientPayment"
    ELSE IF sender = s._owners[a.tokenId] THEN "SelfPurchase"
    ELSE "ok"

(* purchaseTrack without the reentrancy guard. *)
purchaseTrack_NoGuard(s, sender, a, value) ==
    IF s._paused THEN Revert(s, "SystemPaused")
    ELSE LET s1 == Pay(s, sender, LEDGER, value)
             e == purchaseChecks(s1, sender, a, value)
         IN  IF e # "ok" THEN Revert(s, e)
             ELSE LET seller == s1._owners[a.tokenId]
                      s2 == _transfer(s1, seller, sender, a.tokenId)
                      creatorAmount == creatorAmountOf(s2, value)
                      sellerAmount == sellerAmountOf(s2, value)
                      loc == [NoLoc EXCEPT !.seller = seller,
                                           !.creatorAmount = creatorAmount,
                                           !.sellerAmount = sellerAmount]
                  IN  IF s2.balance[LEDGER] < sellerAmount
                      THEN Revert(s, "PaymentDispatchError")
                      ELSE Emit(Wait(Pay(s2, LEDGER, seller, sellerAmount), "paySeller", seller, loc),
                                Transfer(seller, sender, a.tokenId))

(* purchaseTrack up to the dispatch of the seller's amount. *)
purchaseTrack(s, sender, a, value) ==
    IF s._paused THEN Revert(s, "SystemPaused")
    ELSE IF s._status = ENTERED THEN Revert(s, "Reentrancy")
    ELSE LET s1 == Pay([s EXCEPT !._status = ENTERED], sender, LEDGER, value)
             e == purchaseChecks(s1, sender, a, value)
         IN  IF e # "ok" THEN Revert(s, e)
             ELSE LET seller == s1._owners[a.tokenId]
                      s2 == _transfer(s1, seller, sender, a.tokenId)
                      creatorAmount == creatorAmountOf(s2, value)
                      sellerAmount == sellerAmountOf(s2, value)
                      loc == [NoLoc EXCEPT !.seller = seller,
                                           !.creatorAmount = creatorAmount,
                                           !.sellerAmount = sellerAmount]
                  IN  IF s2.balance[LEDGER] < sellerAmount
                      THEN Revert(s, "PaymentDispatchError")
                      ELSE Emit(Wait(Pay(s2, LEDGER, seller, sellerAmount), "paySeller", seller, loc),
                                Transfer(seller, sender, a.tokenId))

(* purchaseTrack after the seller's dispatch: require(sentToSeller), then *)
(* the dispatch of the creator's amount.                                   *)
purchasePaidSeller(s, fr, ok) ==
    IF ~ok THEN Revert(fr.snap, "PaymentDispatchError")
    ELSE LET creator == s.tracks[fr.args.tokenId].creator
         IN  IF s.balance[LEDGER] < fr.loc.creatorAmount
             THEN Revert(fr.snap, "PaymentDispatchError")
             ELSE Wait(Pay(s, LEDGER, creator, fr.loc.creatorAmount), "payCreator",
                       creator, fr.loc)

(* purchasePaidCreator without require(sentToCreator). *)
purchasePaidCreator_Unchecked(s, fr, ok) ==
    Emit(Done([s EXCEPT !.tracks[fr.args.tokenId].isForSale = FALSE,
                        !._status = NOT_ENTERED], 0, fr.loc),
         TrackPurchased(fr.args.tokenId, fr.sender, fr.value))

(* purchasePaidCreator that returns with the reentrancy guard still held.  *)
purchasePaidCreator_GuardKept(s, fr, ok) ==
    IF ~ok THEN Revert(fr.snap, "PaymentDispatchError")
    ELSE Emit(Done([s EXCEPT !.tracks[fr.args.tokenId].isForSale = FALSE], 0, fr.loc),
              TrackPurchased(fr.args.tokenId, fr.sender, fr.value))

(* purchaseTrack after the creator's dispatch: require(sentToCreator),    *)
(* the sale flag, and the release of the reentrancy guard.                 *)
purchasePaidCreator(s, fr, ok) ==
    IF ~ok THEN Revert(fr.snap, "PaymentDispatchError")
    ELSE Emit(Done([s EXCEPT !.tracks[fr.args.tokenId].isForSale = FALSE,
                             !._status = NOT_ENTERED], 0, fr.loc),
              TrackPurchased(fr.args.tokenId, fr.sender, fr.value))

----------------------------------------------------------------------------
(* The read operations.  None changes the world state.  What a read        *)
(* returns is a record with one field per type of result: nums (integers), *)
(* flag (a boolean), text (a string) and list (an array of Track).         *)

NoView == [nums |-> <<>>, flag |-> FALSE, text |-> "", list |-> <<>>]

Returns(s, v) == [kind |-> "done", st |-> s, err |-> "ok", view |-> v]

Fails(s, e) == [kind |-> "done", st |-> s, err |-> e, view |-> NoView]

(* The array has totalTracks entries: the records of the filled slots in   *)
(* the order of their track numbers, then zero-valued records.             *)
getAlbumTracks(s, a) ==
    IF ~AlbumExists(s, a.albumId) THEN Fails(s, "NotFound")
    ELSE LET total == s.albums[a.albumId].totalTracks
             filled == {n \in 1 .. total : TrackExists(s, a.albumId, n)}
             nth(i) == CHOOSE n \in filled : Cardinality({m \in filled : m <= n}) = i
             albumTracks ==
                 [i \in 1 .. total |->
                     IF i <= Cardinality(filled)
                     THEN s.tracks[s.albumTrackToToken[a.albumId][nth(i)]]
                     ELSE EmptyTrack]
         IN  Returns(s, [NoView EXCEPT !.list = albumTracks])

getTrackSupply(s, a) ==
    IF ~AlbumExists(s, a.albumId) THEN Fails(s, "NotFound")
    ELSE IF ~TrackExists(s, a.albumId, a.trackNumber) THEN Fails(s, "NotFound")
    ELSE LET tokenId == s.albumTrackToToken[a.albumId][a.trackNumber]
         IN  Returns(s, [NoView EXCEPT !.nums = <<s.tracks[tokenId].currentSupply,
                                                  s.tracks[tokenId].maxSupply>>])

getAlbumSupply(s, a) ==
    IF ~AlbumExists(s, a.albumId) THEN Fails(s, "NotFound")
    ELSE Returns(s, [NoView EXCEPT !.nums = <<s.albums[a.albumId].currentSupply,
                                              s.albums[a.albumId].maxSupply>>])

tokenURI(s, a) ==
    IF ~_exists(s, a.tokenId) THEN Fails(s, "NotFound")
    ELSE Returns(s, [NoView EXCEPT !.text = s.tracks[a.tokenId].uri])

exists(s, a) == Returns(s, [NoView EXCEPT !.flag = _exists(s, a.tokenId)])

totalAlbums(s) == Returns(s, [NoView EXCEPT !.nums = <<s._albumIds>>])

totalSupply(s) == Returns(s, [NoView EXCEPT !.nums = <<s._tokenIds>>])

----------------------------------------------------------------------------
(* The contract without albums (src/contracts/MusicAlbumNFT.sol) *)

EmptyMusic == [name |-> "", uri |-> "", minPrice |-> 0, isForSale |-> FALSE,
               creator |-> ZERO]

(* The world state after its constructor has run. *)
constructorMusic ==
    [_owner |-> Deployer,
     _status |-> NOT_ENTERED,
     _tokenIds |-> 0,
     musicCollection |-> [t \in TokenSlots |-> EmptyMusic],
     _owners |-> [t \in TokenSlots |-> ZERO],
     balance |-> InitialBalance]

(* mintMusic up to the onERC721Received hook of _safeMint. *)
mintMusic(s, sender, a) ==
    IF sender # s._owner THEN Revert(s, "Unauthorized")
    ELSE LET newTokenId == s._tokenIds + 1
             s1 == _mint([s EXCEPT !._tokenIds = newTokenId], sender, newTokenId)
         IN  Emit(Wait(s1, "onERC721Received", sender, [NoLoc EXCEPT !.newTokenId = newTokenId]),
                  Transfer(ZERO, sender, newTokenId))

(* mintMusic after the hook: the record of the token. *)
mintMusicFinish(s, fr, ok) ==
    IF ~ok THEN Revert(fr.snap, "ReceiverRejected")
    ELSE LET a == fr.args
             newTokenId == fr.loc.newTokenId
             music == [name |-> a.name, uri |-> a.uri, minPrice |-> a.minPrice,
                       isForSale |-> TRUE, creator |-> fr.sender]
         IN  Emit(Done([s EXCEPT !.musicCollection[newTokenId] = music], newTokenId, fr.loc),
                  MusicMinted(newTokenId, a.name, fr.sender))

updateMinPrice(s, sender, a) ==
    IF sender # s._owner THEN Revert(s, "Unauthorized")
    ELSE IF ~_exists(s, a.tokenId) THEN Revert(s, "NotFound")
    ELSE Emit(Done([s EXCEPT !.musicCollection[a.tokenId].minPrice = a.newMinPrice], 0, NoLoc),
              MusicMinPriceUpdated(a.tokenId, a.newMinPrice))

updateMusicSaleStatus(s, sender, a) ==
    IF sender # s._owner THEN Revert(s, "Unauthorized")
    ELSE IF ~_exists(s, a.tokenId) THEN Revert(s, "NotFound")
    ELSE Emit(Done([s EXCEPT !.musicCollection[a.tokenId].isForSale = a.isForSale], 0, NoLoc),
              MusicSaleStatusUpdated(a.tokenId, a.isForSale))

(* purchaseMusic up to the dispatch of the seller's amount: the guard, the *)
(* three checks, the transfer and the split of 10 in 100 for the creator.  *)
purchaseMusic(s, sender, a, value) ==
    IF s._status = ENTERED THEN Revert(s, "Reentrancy")
    ELSE LET s1 == Pay([s EXCEPT !._status = ENTERED], sender, LEDGER, value)
         IN  IF ~_exists(s1, a.tokenId) THEN Revert(s, "NotFound")
             ELSE IF ~s1.musicCollection[a.tokenId].isForSale THEN Revert(s, "NotForSale")
             ELSE IF ~(value >= s1.musicCollection[a.tokenId].minPrice)
                  THEN Revert(s, "InsufficientPayment")
             ELSE LET seller == s1._owners[a.tokenId]
                      s2 == _transfer(s1, seller, sender, a.tokenId)
                      creatorFee == (value * 10) \div 100
                      sellerAmount == value - creatorFee
                      loc == [NoLoc EXCEPT !.seller = seller,
                                           !.creatorAmount = creatorFee,
                                           !.sellerAmount = sellerAmount]
                  IN  IF s2.balance[LEDGER] < sellerAmount
                      THEN Revert(s, "PaymentDispatchError")
                      ELSE Emit(Wait(Pay(s2, LEDGER, seller, sellerAmount), "paySeller", seller, loc),
                                Transfer(seller, sender, a.tokenId))

(* purchaseMusic after the seller's dispatch. *)
purchaseMusicPaidSeller(s, fr, ok) ==
    IF ~ok THEN Revert(fr.snap, "PaymentDispatchError")
    ELSE LET creator == s.musicCollection[fr.args.tokenId].creator
         IN  IF s.balance[LEDGER] < fr.loc.creatorAmount
             THEN Revert(fr.snap, "PaymentDispatchError")
             ELSE Wait(Pay(s, LEDGER, creator, fr.loc.creatorAmount), "payCreator",
                       creator, fr.loc)

(* purchaseMusic after the creator's dispatch. *)
purchaseMusicPaidCreator(s, fr, ok) ==
    IF ~ok THEN Revert(fr.snap, "PaymentDispatchError")
    ELSE Emit(Done([s EXCEPT !.musicCollection[fr.args.tokenId].isForSale = FALSE,
                             !._status = NOT_ENTERED], 0, fr.loc),
              MusicPurchased(fr.args.tokenId, fr.sender, fr.value))

----------------------------------------------------------------------------
(* A call from its entry to its first external call or its end. *)
Enter(s, fn, sender, a, value) ==
    CASE fn = "createAlbum" -> createAlbum(s, sender, a)
      [] fn = "mintTrack" -> mintTrack(s, sender, a)
      [] fn = "mintAdditionalCopy" -> mintAdditionalCopy(s, sender, a)
      [] fn = "purchaseTrack" -> purchaseTrack(s, sender, a, value)
      [] fn = "setRoyalty" -> setRoyalty(s, sender, a)
      [] fn = "setTrackMaxSupply" -> setTrackMaxSupply(s, sender, a)
      [] fn = "setAlbumMaxSupply" -> setAlbumMaxSupply(s, sender, a)
      [] fn = "updateTrackPrice" -> updateTrackPrice(s, sender, a)
      [] fn = "updateTrackSaleStatus" -> updateTrackSaleStatus(s, sender, a)
      [] fn = "pause" -> pause(s, sender)
      [] fn = "unpause" -> unpause(s, sender)
      [] fn = "transferFrom" -> transferFrom(s, sender, a)
      [] fn = "transferOwnership" -> transferOwnership(s, sender, a)
      [] fn = "mintMusic" -> mintMusic(s, sender, a)
      [] fn = "updateMinPrice" -> updateMinPrice(s, sender, a)
      [] fn = "updateMusicSaleStatus" -> updateMusicSaleStatus(s, sender, a)
      [] fn = "purchaseMusic" -> purchaseMusic(s, sender, a, value)

(* A suspended call from the return of its external call onwards. *)
Resume(s, fr, ok) ==
    CASE fr.fn = "mintTrack" -> mintTrackFinish(s, fr, ok)
      [] fr.fn = "mintAdditionalCopy" -> mintAdditionalCopyFinish(s, fr, ok)
      [] fr.fn = "purchaseTrack" /\ fr.pc = "paySeller" -> purchasePaidSeller(s, fr, ok)
      [] fr.fn = "purchaseTrack" /\ fr.pc = "payCreator" -> purchasePaidCreator(s, fr, ok)
      [] fr.fn = "mintMusic" -> mintMusicFinish(s, fr, ok)
      [] fr.fn = "purchaseMusic" /\ fr.pc = "paySeller" -> purchaseMusicPaidSeller(s, fr, ok)
      [] fr.fn = "purchaseMusic" /\ fr.pc = "payCreator" -> purchaseMusicPaidCreator(s, fr, ok)

(* A read operation from its entry to its end. *)
View(s, fn, a) ==
    CASE fn = "getAlbumTracks" -> getAlbumTracks(s, a)
      [] fn = "getTrackSupply" -> getTrackSupply(s, a)
      [] fn = "getAlbumSupply" -> getAlbumSupply(s, a)
      [] fn = "tokenURI" -> tokenURI(s, a)
      [] fn = "exists" -> exists(s, a)
      [] fn = "totalAlbums" -> totalAlbums(s)
      [] fn = "totalSupply" -> totalSupply(s)

----------------------------------------------------------------------------
(* The inputs *)

NoArgs == [none |-> 0]

ValidAlbum == [name |-> "Demo", uri |-> "uri://a", totalTracks |-> 2, maxSupply |-> 3]

CreateAlbumArgs ==
    {ValidAlbum,
     [ValidAlbum EXCEPT !.name = ""],
     [ValidAlbum EXCEPT !.uri = ""],
     [ValidAlbum EXCEPT !.totalTracks = 0],
     [ValidAlbum EXCEPT !.maxSupply = 0]}

ValidTrack == [albumId |-> 1, trackNumber |-> 1, name |-> "T1", uri |-> "uri://t1",
               minPrice |-> 100, maxSupply |-> 2]

MintTrackArgs ==
    {[ValidTrack EXCEPT !.albumId = a, !.trackNumber = n] : a \in Albums, n \in {1, 2}}
    \cup {[ValidTrack EXCEPT !.trackNumber = 0],
          [ValidTrack EXCEPT !.trackNumber = MaxTrackNo],
          [ValidTrack EXCEPT !.name = ""],
          [ValidTrack EXCEPT !.uri = ""],
          [ValidTrack EXCEPT !.maxSupply = 0]}

TrackArgs == [albumId : Albums, trackNumber : {1, 2}]

PurchaseArgs == [tokenId : Tokens]

(* A payment that covers the price of ValidTrack, from any account, and an *)
(* empty payment from the administrator.                                   *)
PurchaseCalls ==
    {<<sender, a, 155>> : sender \in Addr, a \in PurchaseArgs}
    \cup {<<Deployer, a, 0>> : a \in PurchaseArgs}

RoyaltyArgs == {[creatorRoyalty |-> 33, sellerRoyalty |-> 67],
                [creatorRoyalty |-> 10, sellerRoyalty |-> 80]}

TrackMaxArgs == [albumId : {1}, trackNumber : {1}, newMaxSupply : {1, 3}]

AlbumMaxArgs == [albumId : {1}, newMaxSupply : {1}]

PriceArgs == [tokenId : {1}, newMinPrice : {200}]

SaleArgs == [tokenId : {1}, isForSale : BOOLEAN]

TransferArgs == [tokenId : Tokens, to : {"alice"}]

MintMusicArgs == {[name |-> "Song", uri |-> "uri://s", minPrice |-> 100]}

(* The read operations and their inputs: album 1 and an album that is     *)
(* never created, slot 1 and token 1.                                      *)
ReadCalls ==
    {<<"getAlbumTracks", [albumId |-> a]>> : a \in AlbumSlots}
    \cup {<<"getTrackSupply", [albumId |-> 1, trackNumber |-> 1]>>,
          <<"getAlbumSupply", [albumId |-> 1]>>,
          <<"tokenURI", [tokenId |-> 1]>>,
          <<"exists", [tokenId |-> 1]>>,
          <<"totalAlbums", NoArgs>>,
          <<"totalSupply", NoArgs>>}

(* Who calls an administrator's entry point with what: the administrator  *)
(* with every input, another account with one of them.                     *)
Outsider == "alice"

AdminCalls(Args) ==
    {<<sender, a>> : sender \in {Deployer}, a \in Args}
    \cup {<<Outsider, CHOOSE a \in Args : TRUE>>}

----------------------------------------------------------------------------
(* The state machine *)

NoScript == [pc |-> "none"]

NoCall == [fn |-> "none", sender |-> ZERO, args |-> NoArgs, value |-> 0, err |-> "",
           ret |-> 0, loc |-> NoLoc, depth |-> 0, pc |-> "", accepted |-> TRUE,
           blocked |-> {}, view |-> NoView, retry |-> "no", log |-> <<>>]

Init ==
    /\ chain = constructor(10, 90)
    /\ stack = <<>>
    /\ last = NoCall
    /\ ncalls = 0
    /\ script = NoScript

Top == stack[Len(stack)]

(* The record of a call that has ended: what was called, how it ended,    *)
(* where it stood (pc) and whether the account it last handed control to  *)
(* accepted, the entry points called back into while it was suspended     *)
(* (blocked), how many calls enclose it (depth), what it returned when it  *)
(* was a read (view), and whether it is the repetition of a call that had  *)
(* been turned down while the ledger was paused (retry: "no"; "pending"    *)
(* on the record of the call turned down, once the ledger is unpaused for  *)
(* it to be repeated; "done" on the repetition), and the events it left    *)
(* in the log (log): those it emitted and those of the calls made while it *)
(* was suspended, in order, or none when it failed.                        *)
Completed(fn, sender, a, value, out, depth, pc, accepted, blocked) ==
    [fn |-> fn, sender |-> sender, args |-> a, value |-> value, err |-> out.err,
     ret |-> out.ret, loc |-> out.loc, depth |-> depth, pc |-> pc,
     accepted |-> accepted, blocked |-> blocked, view |-> NoView, retry |-> "no",
     log |-> out.log]

(* sender calls fn and the call runs to its first external call or to its *)
(* end.  A call made while another is suspended is counted in that one's   *)
(* frame: as nested when the account in control made it (direct), as       *)
(* relayed when another account did.                                       *)
Begin(fn, sender, a, value, direct) ==
    /\ ncalls < MaxOps
    /\ UNCHANGED script
    /\ chain.balance[sender] >= value
    /\ \E out \in {Enter(chain, fn, sender, a, value)} :
       LET passed == out.kind = "wait" \/ out.err = "ok"
           retry == IF last.retry = "pending" THEN "done" ELSE "no"
           under == IF stack = <<>> THEN <<>>
                    ELSE [stack EXCEPT ![Len(stack)].nested =
                                           IF passed /\ direct THEN @ + 1 ELSE @,
                                       ![Len(stack)].relayed =
                                           IF passed /\ ~direct THEN @ + 1 ELSE @,
                                       ![Len(stack)].blocked =
                                           IF out.err = "Reentrancy" THEN @ \cup {fn} ELSE @,
                                       ![Len(stack)].log =
                                           IF out.kind = "done" THEN @ \o out.log ELSE @]
       IN  /\ (fn \in {"mintTrack", "mintAdditionalCopy", "mintMusic"} /\ out.kind = "wait")
                  => chain._tokenIds < MaxTokens
           /\ (fn = "createAlbum" /\ out.err = "ok") => chain._albumIds < MaxAlbums
           /\ out.kind = "wait" => Len(stack) < MaxDepth
           /\ chain' = out.st
           /\ ncalls' = IF passed THEN ncalls + 1 ELSE ncalls
           /\ IF out.kind = "done"
              THEN /\ stack' = under
                   /\ last' = [Completed(fn, sender, a, value, out, Len(stack), "", TRUE, {})
                                  EXCEPT !.retry = retry]
              ELSE /\ stack' = Append(under,
                                      [fn |-> fn, sender |-> sender, args |-> a,
                                       value |-> value, snap |-> chain, pc |-> out.pc,
                                       to |-> out.to, loc |-> out.loc, nested |-> 0,
                                       relayed |-> 0, blocked |-> {}, retry |-> retry,
                                       log |-> out.log])
                   /\ last' = NoCall

(* sender calls fn: as a transaction of its own when no call is running,  *)
(* or from within the hook or receipt it is being handed control in.       *)
Invoke(fn, sender, a, value) ==
    /\ last = NoCall
    /\ stack # <<>> => (Top.to = sender /\ Top.nested < MaxNested)
    /\ Begin(fn, sender, a, value, TRUE)

(* The account that is being handed control has another account, sender,  *)
(* call fn.                                                                *)
Relay(fn, sender, a, value) ==
    /\ last = NoCall
    /\ stack # <<>>
    /\ Top.to # sender
    /\ Top.relayed < MaxRelayed
    /\ Begin(fn, sender, a, value, FALSE)

(* The account in control returns (ok) or fails (~ok).  A call that        *)
(* completes hands what it recorded on to the call that encloses it.       *)
Callback(ok) ==
    /\ last = NoCall
    /\ stack # <<>>
    /\ UNCHANGED script
    /\ \E out \in {Resume(chain, Top, ok)} :
       LET fr == Top
           rest == SubSeq(stack, 1, Len(stack) - 1)
           kept == IF out.err = "ok" THEN fr.log \o out.log ELSE <<>>
       IN  /\ chain' = out.st
           /\ ncalls' = ncalls
           /\ IF out.kind = "done"
              THEN /\ stack' = IF rest = <<>> \/ out.err # "ok" THEN rest
                                  ELSE [rest EXCEPT
                                           ![Len(rest)].blocked = @ \cup fr.blocked,
                                           ![Len(rest)].log = @ \o kept]
                   /\ last' = [Completed(fr.fn, fr.sender, fr.args, fr.value,
                                         [out EXCEPT !.loc = fr.loc, !.log = kept],
                                         Len(stack) - 1, fr.pc, ok, fr.blocked)
                                  EXCEPT !.retry = fr.retry]
              ELSE /\ stack' = Append(rest, [fr EXCEPT !.pc = out.pc, !.to = out.to,
                                                       !.loc = out.loc, !.nested = 0,
                                                       !.relayed = 0,
                                                       !.log = @ \o out.log])
                   /\ last' = last

CreateAlbum == \E c \in AdminCalls(CreateAlbumArgs) : Invoke("createAlbum", c[1], c[2], 0)

MintTrack == \E c \in AdminCalls(MintTrackArgs) : Invoke("mintTrack", c[1], c[2], 0)

MintAdditionalCopy == \E c \in AdminCalls(TrackArgs) : Invoke("mintAdditionalCopy", c[1], c[2], 0)

PurchaseTrack == \E c \in PurchaseCalls : Invoke("purchaseTrack", c[1], c[2], c[3])

SetRoyalty == \E c \in AdminCalls(RoyaltyArgs) : Invoke("setRoyalty", c[1], c[2], 0)

SetTrackMaxSupply == \E c \in AdminCalls(TrackMaxArgs) : Invoke("setTrackMaxSupply", c[1], c[2], 0)

SetAlbumMaxSupply == \E c \in AdminCalls(AlbumMaxArgs) : Invoke("setAlbumMaxSupply", c[1], c[2], 0)

UpdateTrackPrice == \E c \in AdminCalls(PriceArgs) : Invoke("updateTrackPrice", c[1], c[2], 0)

UpdateTrackSaleStatus == \E c \in AdminCalls(SaleArgs) : Invoke("updateTrackSaleStatus", c[1], c[2], 0)

Pause == \E sender \in {Deployer, Outsider} : Invoke("pause", sender, NoArgs, 0)

Unpause == \E sender \in {Deployer, Outsider} : Invoke("unpause", sender, NoArgs, 0)

TransferFrom == \E sender \in Addr, a \in TransferArgs : Invoke("transferFrom", sender, a, 0)

(* The record of the completed call is taken off the observation. *)
Forget ==
    /\ last # NoCall
    /\ last' = NoCall
    /\ UNCHANGED <<chain, stack, ncalls, script>>

Accept == Callback(TRUE)

Reject == Callback(FALSE)

Next ==
    \/ CreateAlbum
    \/ MintTrack
    \/ MintAdditionalCopy
    \/ PurchaseTrack
    \/ SetRoyalty
    \/ SetTrackMaxSupply
    \/ SetAlbumMaxSupply
    \/ UpdateTrackPrice
    \/ UpdateTrackSaleStatus
    \/ Pause
    \/ Unpause
    \/ TransferFrom
    \/ Accept
    \/ Reject
    \/ Forget

Spec == Init /\ [][Next]_vars

(* The contract without albums *)

InitFlat ==
    /\ chain = constructorMusic
    /\ stack = <<>>
    /\ last = NoCall
    /\ ncalls = 0
    /\ script = NoScript

MintMusic == \E c \in AdminCalls(MintMusicArgs) : Invoke("mintMusic", c[1], c[2], 0)

UpdateMinPrice == \E c \in AdminCalls(PriceArgs) : Invoke("updateMinPrice", c[1], c[2], 0)

UpdateMusicSaleStatus ==
    \E c \in AdminCalls(SaleArgs) : Invoke("updateMusicSaleStatus", c[1], c[2], 0)

PurchaseMusic == \E c \in PurchaseCalls : Invoke("purchaseMusic", c[1], c[2], c[3])

NextFlat ==
    \/ MintMusic
    \/ UpdateMinPrice
    \/ UpdateMusicSaleStatus
    \/ PurchaseMusic
    \/ TransferFrom
    \/ Accept
    \/ Reject
    \/ Forget

SpecFlat == InitFlat /\ [][NextFlat]_vars

(* The album contract with its read operations.  A read is made as a call  *)
(* of its own, by an account that is not the administrator.                *)
Read ==
    /\ last = NoCall
    /\ stack = <<>>
    /\ \E c \in ReadCalls :
        \E out \in {View(chain, c[1], c[2])} :
          last' = [fn |-> c[1], sender |-> Outsider, args |-> c[2], value |-> 0,
                   err |-> out.err, ret |-> 0, loc |-> NoLoc, depth |-> 0, pc |-> "",
                   accepted |-> TRUE, blocked |-> {}, view |-> out.view, retry |-> "no",
                   log |-> <<>>]
    /\ UNCHANGED <<chain, stack, ncalls, script>>

NextViews == Next \/ Read

SpecViews == Init /\ [][NextViews]_vars

(* The album contract deployed with any of the royalty pairs of            *)
(* DeployArgs that the constructor lets through.                           *)
DeployArgs == {<<10, 90>>, <<0, 100>>, <<50, 60>>}

InitDeploy ==
    /\ \E p \in DeployArgs :
          /\ constructorRequire(p[1], p[2])
          /\ chain = constructor(p[1], p[2])
    /\ stack = <<>>
    /\ last = NoCall
    /\ ncalls = 0
    /\ script = NoScript

SpecDeploy == InitDeploy /\ [][Next]_vars

(* The album contract with the repetition of calls that the pause turned  *)
(* down.  A call made as a transaction of its own has failed with          *)
(* SystemPaused; the administrator unpauses the ledger as its next          *)
(* transaction, and the call is then made again, by the same sender with   *)
(* the same arguments and payment, as the transaction after that.          *)
UnpauseForRetry ==
    /\ stack = <<>>
    /\ last.err = "SystemPaused"
    /\ last.retry = "no"
    /\ ncalls < MaxOps
    /\ \E out \in {Enter(chain, "unpause", chain._owner, NoArgs, 0)} :
          /\ out.err = "ok"
          /\ chain' = out.st
    /\ last' = [last EXCEPT !.retry = "pending"]
    /\ ncalls' = ncalls + 1
    /\ UNCHANGED <<stack, script>>

Retry ==
    /\ stack = <<>>
    /\ last.retry = "pending"
    /\ Begin(last.fn, last.sender, last.args, last.value, TRUE)

NextRetry ==
    \/ Next
    \/ UnpauseForRetry
    \/ Retry

SpecRetry == Init /\ [][NextRetry]_vars

(* The album contract with a change of administrator: the administrator   *)
(* names Successor, and Successor mints, as a transaction of its own or    *)
(* called by the account that is being handed control.                     *)
Successor == "bob"

OwnershipArgs == [newOwner : {Successor}]

SuccessorArgs ==
    {<<"mintTrack", [ValidTrack EXCEPT !.trackNumber = n]>> : n \in {1, 2}}
    \cup {<<"mintAdditionalCopy", a>> : a \in TrackArgs}

TransferOwnership ==
    \E c \in AdminCalls(OwnershipArgs) : Invoke("transferOwnership", c[1], c[2], 0)

SuccessorMints == \E c \in SuccessorArgs : Invoke(c[1], Successor, c[2], 0)

SuccessorRelayed == \E c \in SuccessorArgs : Relay(c[1], Successor, c[2], 0)

NextOwners ==
    \/ CreateAlbum
    \/ MintTrack
    \/ MintAdditionalCopy
    \/ PurchaseTrack
    \/ UpdateTrackPrice
    \/ UpdateTrackSaleStatus
    \/ TransferOwnership
    \/ SuccessorMints
    \/ SuccessorRelayed
    \/ Accept
    \/ Reject
    \/ Forget

SpecOwners == Init /\ [][NextOwners]_vars

----------------------------------------------------------------------------
(* What a step shows of the call that ends in it *)

(* A call ends in this step. *)
CallEnds == last = NoCall /\ last' # NoCall

(* The call that ends in this step was suspended (it leaves the stack). *)
FrameEnds == CallEnds /\ Len(stack') < Len(stack)

(* The world state at the entry of the call that ends in this step. *)
PreState == IF Len(stack') < Len(stack) THEN Top.snap ELSE chain

(* The calls that enclose the call that ends in this step. *)
Enclosing == IF Len(stack') < Len(stack) THEN SubSeq(stack, 1, Len(stack) - 1) ELSE stack

InsidePurchase == \E i \in 1 .. Len(Enclosing) : Enclosing[i].fn = "purchaseTrack"

(* No call is running: the state is one between two transactions. *)
AtRest == stack = <<>>

Issued(s) == {t \in TokenSlots : s._owners[t] # ZERO}

SpecEntryPoints ==
    {"createAlbum", "mintTrack", "mintAdditionalCopy", "purchaseTrack", "setRoyalty",
     "setTrackMaxSupply", "setAlbumMaxSupply", "updateTrackPrice", "updateTrackSaleStatus",
     "pause", "unpause"}

----------------------------------------------------------------------------
(* C1: every call that fails, for whatever reason and at whatever depth,   *)
(* leaves the whole world state (storage and balances) as it was at its    *)
(* entry.                                                                  *)
C1_FailedCallChangesNothing ==
    [][(CallEnds /\ last'.err # "ok") => chain' = PreState]_vars

(* C1 witness: a mintTrack was rejected by the album cap, which is checked *)
(* after the token, the track record and the supply have been written.     *)
C1_Witness ==
    /\ last.fn = "mintTrack"
    /\ last.err = "CapacityExceeded"
    /\ chain._tokenIds = 1
    /\ chain.albums[1].currentSupply = 1

(* C2: between transactions each album's currentSupply is the number of    *)
(* tokens issued for its tracks.                                           *)
C2_AlbumSupplyCountsTokens ==
    AtRest =>
        \A a \in AlbumSlots :
            chain.albums[a].currentSupply =
                Cardinality({t \in Issued(chain) : chain.tracks[t].albumId = a})

(* C2 witness: an album holding a first copy and an additional copy, one   *)
(* of them sold.                                                           *)
C2_Witness ==
    /\ AtRest
    /\ chain.albums[1].currentSupply = 2
    /\ \E t \in Issued(chain) : chain.tracks[t].currentSupply = 2
    /\ last.fn = "purchaseTrack" /\ last.err = "ok"

(* C3: between transactions every track record and every album has        *)
(* currentSupply <= maxSupply.                                             *)
C3_SupplyWithinCaps ==
    AtRest =>
        /\ \A t \in Issued(chain) : chain.tracks[t].currentSupply <= chain.tracks[t].maxSupply
        /\ \A a \in AlbumSlots : chain.albums[a].currentSupply <= chain.albums[a].maxSupply

(* C4: a successful purchase splits its payment into the floor of          *)
(* payment * creatorRoyalty / 100 for the creator and the rest for the     *)
(* seller, the two add up to the payment, the royalty is within 0..100     *)
(* and the ledger's own balance is what it was before the call.            *)
C4_SplitIsExact ==
    [][(CallEnds /\ last'.fn = "purchaseTrack" /\ last'.err = "ok") =>
         LET v == last'.value
             pct == PreState.creatorRoyalty
             c == last'.loc.creatorAmount
             sl == last'.loc.sellerAmount
         IN  /\ pct \in 0 .. 100
             /\ v >= PreState.tracks[last'.args.tokenId].minPrice
             /\ c * 100 <= v * pct /\ v * pct < (c + 1) * 100
             /\ sl = v - c
             /\ c + sl = v
             /\ chain'.balance[LEDGER] = PreState.balance[LEDGER]]_vars

(* C4 witness: a purchase whose creator share was rounded down. *)
C4_Witness ==
    /\ last.fn = "purchaseTrack" /\ last.err = "ok"
    /\ last.value = 155
    /\ last.loc.creatorAmount = 15
    /\ last.loc.sellerAmount = 140

(* The sale flag and the price of token t under either contract. *)
SaleFlag(s, fn, t) ==
    IF fn = "purchaseMusic" THEN s.musicCollection[t].isForSale ELSE s.tracks[t].isForSale

PriceOf(s, fn, t) ==
    IF fn = "purchaseMusic" THEN s.musicCollection[t].minPrice ELSE s.tracks[t].minPrice

(* C5, in the case in which no other precondition fails: a purchase made   *)
(* as a transaction of its own by the holder of a token that is for sale,  *)
(* with a payment of at least minPrice, fails with SelfPurchase and leaves *)
(* holder and sale flag as they were.                                      *)
C5_HolderPurchaseRejected ==
    [][(/\ CallEnds
        /\ last'.fn \in {"purchaseTrack", "purchaseMusic"}
        /\ last'.depth = 0
        /\ last'.sender = PreState._owners[last'.args.tokenId]
        /\ SaleFlag(PreState, last'.fn, last'.args.tokenId)
        /\ last'.value >= PriceOf(PreState, last'.fn, last'.args.tokenId)
        /\ last'.fn = "purchaseTrack" => ~PreState._paused) =>
         /\ last'.err = "SelfPurchase"
         /\ chain'._owners[last'.args.tokenId] = PreState._owners[last'.args.tokenId]
         /\ SaleFlag(chain', last'.fn, last'.args.tokenId)
               = SaleFlag(PreState, last'.fn, last'.args.tokenId)]_vars

(* C6, the part that does not depend on which error is reported: while a  *)
(* purchase is suspended in a payment dispatch, a call back into one of    *)
(* the ledger's own mutating entry points does not succeed and changes no  *)
(* state.                                                                  *)
C6_NestedCallRejected ==
    [][(CallEnds /\ InsidePurchase /\ last'.fn \in SpecEntryPoints) =>
         /\ last'.err # "ok"
         /\ chain' = PreState]_vars

(* C7 as stated: a purchase during whose payment dispatch the recipient    *)
(* attempted a purchase ends rolled back.                                  *)
C7_OuterRolledBack ==
    [][(FrameEnds /\ last'.fn = "purchaseTrack" /\ "purchaseTrack" \in last'.blocked) =>
         /\ last'.err # "ok"
         /\ chain' = PreState]_vars

(* C7 amended: a purchase attempted from within a payment dispatch is      *)
(* rejected (Reentrancy; SystemPaused when the ledger has been paused in   *)
(* the meantime) and changes no state; the outer purchase is rolled back,  *)
(* with PaymentDispatchError, exactly when the recipient then fails its    *)
(* dispatch, and completes when the recipient accepts.                     *)
C7_NestedPurchaseRejected ==
    [][/\ (CallEnds /\ InsidePurchase /\ last'.fn = "purchaseTrack") =>
             /\ last'.err = IF chain._paused THEN "SystemPaused" ELSE "Reentrancy"
             /\ chain' = chain
       /\ (FrameEnds /\ last'.fn = "purchaseTrack" /\ "purchaseTrack" \in last'.blocked) =>
             IF last'.accepted
             THEN last'.err = "ok"
             ELSE last'.err = "PaymentDispatchError" /\ chain' = PreState]_vars

(* C7 witness: a purchase that completed although the recipient of a      *)
(* dispatch had attempted a purchase from within it.                       *)
C7_Witness ==
    /\ last.fn = "purchaseTrack"
    /\ last.err = "ok"
    /\ "purchaseTrack" \in last.blocked

(* C8: a purchase one of whose two dispatches failed ends with             *)
(* PaymentDispatchError, and holder, sale flag and all balances (the       *)
(* whole world state) are those before the call.                           *)
C8_DispatchFailureRollsBack ==
    [][(FrameEnds /\ last'.fn = "purchaseTrack" /\ ~last'.accepted) =>
         LET t == last'.args.tokenId
         IN  /\ last'.err = "PaymentDispatchError"
             /\ chain'._owners[t] = PreState._owners[t]
             /\ chain'.tracks[t].isForSale = PreState.tracks[t].isForSale
             /\ chain'.balance = PreState.balance
             /\ chain' = PreState]_vars

(* C8 witness: the creator's dispatch failed after the seller's share had  *)
(* been handed over, seller and creator being different accounts.          *)
C8_Witness ==
    /\ last.fn = "purchaseTrack"
    /\ ~last.accepted
    /\ last.pc = "payCreator"
    /\ last.loc.sellerAmount > 0
    /\ last.loc.seller # chain.tracks[last.args.tokenId].creator

(* The balances after a purchase of value v by buyer b that pays sa to sl  *)
(* and ca to cr, from the balances bal.                                    *)
Settled(bal, b, v, sl, sa, cr, ca) ==
    [x \in DOMAIN bal |->
        bal[x] - (IF x = b THEN v ELSE 0) + (IF x = sl THEN sa ELSE 0)
               + (IF x = cr THEN ca ELSE 0)]

(* C9 as stated: after a successful purchase of t by B, B holds t, t is    *)
(* not for sale, and the seller share went to the holder before the call   *)
(* and the creator share to the creator of t's track.                      *)
C9_PurchaseEffects ==
    [][(CallEnds /\ last'.fn = "purchaseTrack" /\ last'.err = "ok") =>
         LET t == last'.args.tokenId
         IN  /\ chain'._owners[t] = last'.sender
             /\ ~chain'.tracks[t].isForSale
             /\ last'.loc.seller = PreState._owners[t]
             /\ chain'.balance = Settled(PreState.balance, last'.sender, last'.value,
                                         PreState._owners[t], last'.loc.sellerAmount,
                                         PreState.tracks[t].creator,
                                         last'.loc.creatorAmount)]_vars

(* The first precondition of purchase that s violates, in the order of    *)
(* the claim; "none" when all four hold.                                   *)
FirstViolated(s, buyer, t, v) ==
    IF s._owners[t] = ZERO THEN "NotFound"
    ELSE IF ~s.tracks[t].isForSale THEN "NotForSale"
    ELSE IF v < s.tracks[t].minPrice THEN "InsufficientPayment"
    ELSE IF buyer = s._owners[t] THEN "SelfPurchase"
    ELSE "none"

(* C10: a purchase that gets past the pause check and the reentrancy      *)
(* guard reports the first violated precondition in the order NotFound,   *)
(* NotForSale, InsufficientPayment, SelfPurchase; and no purchase ever     *)
(* reports one of these four unless it is the first violated.              *)
C10_FirstViolatedReported ==
    [][(CallEnds /\ last'.fn = "purchaseTrack") =>
         LET e == FirstViolated(PreState, last'.sender, last'.args.tokenId, last'.value)
         IN  /\ (~PreState._paused /\ PreState._status = NOT_ENTERED /\ e # "none")
                   => last'.err = e
             /\ last'.err \in {"NotFound", "NotForSale", "InsufficientPayment",
                               "SelfPurchase"} => last'.err = e]_vars

(* C10 witness: a purchase that violated three preconditions at once (the  *)
(* token not for sale, the payment below minPrice, the buyer its holder)   *)
(* and reported the earliest.                                              *)
C10_Witness ==
    /\ last.fn = "purchaseTrack"
    /\ last.err = "NotForSale"
    /\ last.value < chain.tracks[last.args.tokenId].minPrice
    /\ last.sender = chain._owners[last.args.tokenId]

(* C11: when a purchase made as a transaction of its own has returned,     *)
(* with success or with any failure, the reentrancy guard is free; and no  *)
(* call made as a transaction of its own is rejected with Reentrancy.      *)
C11_GuardReleased ==
    [][(CallEnds /\ last'.depth = 0) =>
         /\ last'.err # "Reentrancy"
         /\ last'.fn = "purchaseTrack" => chain'._status = NOT_ENTERED]_vars

(* C11 witness: a purchase went through as a transaction of its own after  *)
(* an earlier purchase had returned: its seller is an account that can     *)
(* only have come to hold the token by buying it.                          *)
C11_Witness ==
    /\ last.fn = "purchaseTrack"
    /\ last.err = "ok"
    /\ last.depth = 0
    /\ last.loc.seller = "bob"

(* The supply counters of s: the token counter, and the issued count of    *)
(* every track record and every album.                                     *)
SupplyCounters(s) ==
    <<s._tokenIds,
      [t \in TokenSlots |-> s.tracks[t].currentSupply],
      [a \in AlbumSlots |-> s.albums[a].currentSupply]>>

(* C12, for callers that pass the identity check: a mintTrack,             *)
(* mintAdditionalCopy or purchase called while the ledger is paused fails  *)
(* with SystemPaused and changes no state; and from a paused state to a    *)
(* paused state no token is issued, no supply counter moves and no token   *)
(* changes its holder.                                                     *)
C12_PausedFreezesIssuance ==
    [][/\ (/\ CallEnds
           /\ last'.fn \in {"mintTrack", "mintAdditionalCopy", "purchaseTrack"}
           /\ PreState._paused
           /\ last'.fn # "purchaseTrack" => last'.sender = PreState._owner) =>
             /\ last'.err = "SystemPaused"
             /\ chain' = PreState
       /\ (chain._paused /\ chain'._paused) =>
             /\ Issued(chain') = Issued(chain)
             /\ SupplyCounters(chain') = SupplyCounters(chain)
             /\ chain'._owners = chain._owners]_vars

ConfigEntryPoints ==
    {"setRoyalty", "setTrackMaxSupply", "setAlbumMaxSupply", "updateTrackPrice",
     "updateTrackSaleStatus"}

ReadEntryPoints ==
    {"getAlbumTracks", "getTrackSupply", "getAlbumSupply", "tokenURI", "exists",
     "totalAlbums", "totalSupply"}

(* The world state s with the ledger Active. *)
Active(s) == [s EXCEPT !._paused = FALSE]

(* C13: a configuration call of the administrator made while the ledger is *)
(* paused ends as the same call does from the same state with the ledger   *)
(* Active, and has the same effect on everything but the pause flag; a     *)
(* read made while the ledger is paused gives the result it gives from the *)
(* same state with the ledger Active, and changes nothing.                 *)
C13_PauseLeavesConfigAndReads ==
    [][/\ (/\ CallEnds
           /\ last'.fn \in ConfigEntryPoints
           /\ last'.sender = chain._owner
           /\ chain._paused) =>
             LET o == Enter(Active(chain), last'.fn, last'.sender, last'.args, last'.value)
             IN  /\ last'.err = o.err
                 /\ Active(chain') = o.st
                 /\ chain'._paused
       /\ (CallEnds /\ last'.fn \in ReadEntryPoints /\ chain._paused) =>
             LET o == View(Active(chain), last'.fn, last'.args)
             IN  /\ last'.err = o.err
                 /\ last'.view = o.view
                 /\ chain' = chain]_vars

(* C13 witness: with the ledger paused, getAlbumTracks returned the record *)
(* of a track whose cap the administrator had raised.                      *)
C13_Witness ==
    /\ chain._paused
    /\ last.fn = "getAlbumTracks"
    /\ last.err = "ok"
    /\ last.view.list[1].maxSupply = 3

AdminEntryPoints == SpecEntryPoints \ {"purchaseTrack"}

C15_IdentityBeforePause ==
    [][(/\ CallEnds
        /\ last'.fn \in {"mintTrack", "mintAdditionalCopy"}
        /\ last'.sender # PreState._owner
        /\ PreState._paused) =>
         last'.err = "Unauthorized"]_vars

(* C15 witness: the ledger is paused and a mintTrack of another account    *)
(* has just been turned down.                                              *)
C15_Witness ==
    /\ chain._paused
    /\ last.fn = "mintTrack"
    /\ last.sender # chain._owner
    /\ last.err = "Unauthorized"

(* What a pause or unpause of the administrator does in a step: pause from *)
(* Active succeeds and makes the ledger Paused, unpause from Paused        *)
(* succeeds and makes it Active, nothing else changing; a pause from       *)
(* Paused and an unpause from Active change nothing, and succeed exactly   *)
(* when redundantSucceeds.                                                 *)
LifecycleStep(redundantSucceeds) ==
    (CallEnds /\ last'.fn \in {"pause", "unpause"} /\ last'.sender = chain._owner) =>
        IF last'.fn = "pause" /\ ~chain._paused
        THEN last'.err = "ok" /\ chain' = [chain EXCEPT !._paused = TRUE]
        ELSE IF last'.fn = "unpause" /\ chain._paused
        THEN last'.err = "ok" /\ chain' = [chain EXCEPT !._paused = FALSE]
        ELSE (last'.err = "ok") = redundantSucceeds /\ chain' = chain

(* C16 as stated: the ledger starts Active, pause makes it Paused and      *)
(* unpause makes it Active; pause while Paused and unpause while Active    *)
(* are allowed (they succeed) and change nothing.                          *)
C16_RedundantAllowed ==
    ~chain._paused /\ [][LifecycleStep(TRUE)]_vars

(* C16 amended: the ledger starts Active, pause makes it Paused and        *)
(* unpause makes it Active; pause while Paused and unpause while Active    *)
(* are rejected and change nothing.                                        *)
C16_RedundantRejected ==
    ~chain._paused /\ [][LifecycleStep(FALSE)]_vars

(* C16 witness: the administrator's pause of a paused ledger has just been *)
(* rejected.                                                               *)
C16_Witness ==
    /\ chain._paused
    /\ last.fn = "pause"
    /\ last.sender = chain._owner
    /\ last.err # "ok"

(* The tokens of s issued for track n of album a. *)
CopiesOf(s, a, n) ==
    {t \in Issued(s) : s.tracks[t].albumId = a /\ s.tracks[t].trackNumber = n}

(* C17, for calls made as transactions of their own: the administrator's   *)
(* setTrackMaxSupply on an existing track fails with ValidationError and   *)
(* changes nothing when newMaxSupply is below the number of tokens issued  *)
(* for the track, and otherwise succeeds and sets the track's cap to       *)
(* newMaxSupply; setAlbumMaxSupply does the same with the number of tokens *)
(* issued for the album and the album's cap.                               *)
C17_CapFloorIsIssuedCount ==
    [][/\ (/\ CallEnds
           /\ last'.fn = "setTrackMaxSupply"
           /\ last'.depth = 0
           /\ last'.sender = chain._owner
           /\ AlbumExists(chain, last'.args.albumId)
           /\ TrackExists(chain, last'.args.albumId, last'.args.trackNumber)) =>
             LET a == last'.args
                 tokenId == chain.albumTrackToToken[a.albumId][a.trackNumber]
                 issued == Cardinality(CopiesOf(chain, a.albumId, a.trackNumber))
             IN  IF a.newMaxSupply < issued
                 THEN last'.err = "ValidationError" /\ chain' = chain
                 ELSE /\ last'.err = "ok"
                      /\ chain' = [chain EXCEPT !.tracks[tokenId].maxSupply = a.newMaxSupply]
       /\ (/\ CallEnds
           /\ last'.fn = "setAlbumMaxSupply"
           /\ last'.depth = 0
           /\ last'.sender = chain._owner
           /\ AlbumExists(chain, last'.args.albumId)) =>
             LET a == last'.args
                 issued == Cardinality({t \in Issued(chain) :
                                          chain.tracks[t].albumId = a.albumId})
             IN  IF a.newMaxSupply < issued
                 THEN last'.err = "ValidationError" /\ chain' = chain
                 ELSE /\ last'.err = "ok"
                      /\ chain' = [chain EXCEPT !.albums[a.albumId].maxSupply = a.newMaxSupply]]_vars

Royalties(s) == <<s.creatorRoyalty, s.sellerRoyalty>>

(* C18: in every state creatorRoyalty + sellerRoyalty = 100, whatever pair *)
(* the ledger was deployed with; the administrator's setRoyalty(c, s)      *)
(* fails with ValidationError and changes nothing unless c + s = 100, and  *)
(* otherwise stores the pair and nothing else; the pair changes in no      *)
(* other way (but for a failing call that restores the pair it started     *)
(* with); and a successful purchase pays the creator the floor of          *)
(* payment * c / 100 for the c stored when the purchase was made.          *)
C18_RoyaltiesSumTo100 ==
    [][/\ chain.creatorRoyalty + chain.sellerRoyalty = ROYALTY_DENOMINATOR
       /\ chain'.creatorRoyalty + chain'.sellerRoyalty = ROYALTY_DENOMINATOR
       /\ (CallEnds /\ last'.fn = "setRoyalty" /\ last'.sender = chain._owner) =>
             LET a == last'.args
             IN  IF a.creatorRoyalty + a.sellerRoyalty = ROYALTY_DENOMINATOR
                 THEN /\ last'.err = "ok"
                      /\ chain' = [chain EXCEPT !.creatorRoyalty = a.creatorRoyalty,
                                                !.sellerRoyalty = a.sellerRoyalty]
                 ELSE last'.err = "ValidationError" /\ chain' = chain
       /\ Royalties(chain') # Royalties(chain) =>
             /\ CallEnds
             /\ \/ last'.fn = "setRoyalty" /\ last'.err = "ok"
                \/ FrameEnds /\ last'.err # "ok" /\ chain' = PreState
       /\ (CallEnds /\ last'.fn = "purchaseTrack" /\ last'.err = "ok") =>
             last'.loc.creatorAmount =
                 (last'.value * PreState.creatorRoyalty) \div ROYALTY_DENOMINATOR]_vars

(* C18 witness: a purchase made after setRoyalty(33, 67) paid the creator  *)
(* 51 of 155.                                                              *)
C18_Witness ==
    /\ last.fn = "purchaseTrack"
    /\ last.err = "ok"
    /\ chain.creatorRoyalty = 33
    /\ last.value = 155
    /\ last.loc.creatorAmount = 51

(* The albums of s that exist. *)
Created(s) == {a \in AlbumSlots : s.albums[a].exists}

CreationEntryPoints == {"createAlbum", "mintTrack", "mintAdditionalCopy"}

(* C19: in every state the issued tokens are the ids 1 .. _tokenIds and    *)
(* the albums that exist are the ids 1 .. _albumIds; a successful          *)
(* mintTrack or mintAdditionalCopy returns the token counter at its entry  *)
(* plus one, a successful createAlbum the album counter plus one, and the  *)
(* id returned is then in use; a creation that fails leaves both counters  *)
(* as they were at its entry; and no step takes an id out of use or a      *)
(* counter back, but for the failure of a call that restores the state at  *)
(* its entry.                                                              *)
C19_IdsAreSequential ==
    [][/\ Issued(chain) = 1 .. chain._tokenIds
       /\ Issued(chain') = 1 .. chain'._tokenIds
       /\ Created(chain) = 1 .. chain._albumIds
       /\ Created(chain') = 1 .. chain'._albumIds
       /\ (CallEnds /\ last'.fn \in {"mintTrack", "mintAdditionalCopy"} /\ last'.err = "ok") =>
             /\ last'.ret = PreState._tokenIds + 1
             /\ last'.ret \notin Issued(PreState)
             /\ last'.ret \in Issued(chain')
       /\ (CallEnds /\ last'.fn = "createAlbum" /\ last'.err = "ok") =>
             /\ last'.ret = PreState._albumIds + 1
             /\ last'.ret \notin Created(PreState)
             /\ Created(chain') = Created(PreState) \cup {last'.ret}
       /\ (CallEnds /\ last'.fn \in CreationEntryPoints /\ last'.err # "ok") =>
             /\ chain'._tokenIds = PreState._tokenIds
             /\ chain'._albumIds = PreState._albumIds
       /\ (chain'._tokenIds < chain._tokenIds \/ chain'._albumIds < chain._albumIds
              \/ ~(Issued(chain) \subseteq Issued(chain'))
              \/ ~(Created(chain) \subseteq Created(chain'))) =>
             FrameEnds /\ last'.err # "ok" /\ chain' = PreState]_vars

(* C19 witness: the second token has just been issued, with id 2, after a  *)
(* first token with id 1.                                                  *)
C19_Witness ==
    /\ last.fn = "mintAdditionalCopy"
    /\ last.err = "ok"
    /\ last.ret = 2
    /\ Issued(chain) = {1, 2}
    /\ chain._tokenIds = 2

(* The filled slots of album a in s. *)
FilledSlots(s, a) == {n \in TrackNos : s.albums[a].trackExists[n]}

(* C20: the filled slots of every album are within 1 .. totalTracks; a     *)
(* mintTrack succeeds only for a slot for which no token has been issued   *)
(* yet, so that at most one mintTrack ever succeeds for a slot; and the    *)
(* administrator's mintTrack, with the ledger Active, on a filled slot of  *)
(* an existing album or with a track number outside 1 .. totalTracks       *)
(* fails with ValidationError and changes nothing.                         *)
C20_SlotsFilledOnce ==
    [][/\ \A a \in AlbumSlots :
             FilledSlots(chain', a) \subseteq 1 .. chain'.albums[a].totalTracks
       /\ (CallEnds /\ last'.fn = "mintTrack" /\ last'.err = "ok") =>
             CopiesOf(chain, last'.args.albumId, last'.args.trackNumber) = {}
       /\ (/\ CallEnds
           /\ last'.fn = "mintTrack"
           /\ last'.sender = PreState._owner
           /\ ~PreState._paused
           /\ AlbumExists(PreState, last'.args.albumId)
           /\ \/ TrackExists(PreState, last'.args.albumId, last'.args.trackNumber)
              \/ last'.args.trackNumber \notin
                     1 .. PreState.albums[last'.args.albumId].totalTracks) =>
             last'.err = "ValidationError" /\ chain' = PreState]_vars

(* C21: a mintTrack that passed its entry checks on an album that is at     *)
(* its cap (currentSupply = maxSupply at the call's entry, and still at or  *)
(* above the cap when the receiver's hook returns) fails, with              *)
(* CapacityExceeded when the receiver accepted the token; after the         *)
(* failure the slot is unfilled, the token the call had issued does not     *)
(* exist, and the token counter, the album's currentSupply and the whole    *)
(* world state are those at the call's entry.                               *)
C21_MintAtAlbumCapRolledBack ==
    [][(/\ FrameEnds
        /\ last'.fn = "mintTrack"
        /\ PreState.albums[last'.args.albumId].currentSupply
              = PreState.albums[last'.args.albumId].maxSupply
        /\ chain.albums[last'.args.albumId].currentSupply
              >= chain.albums[last'.args.albumId].maxSupply) =>
         LET a == last'.args
         IN  /\ last'.err # "ok"
             /\ last'.accepted => last'.err = "CapacityExceeded"
             /\ ~TrackExists(chain', a.albumId, a.trackNumber)
             /\ chain'.albumTrackToToken[a.albumId][a.trackNumber] = 0
             /\ ~_exists(chain', last'.loc.newTokenId)
             /\ chain'.tracks[last'.loc.newTokenId] = EmptyTrack
             /\ chain'._tokenIds = PreState._tokenIds
             /\ chain'.albums[a.albumId].currentSupply
                   = PreState.albums[a.albumId].currentSupply
             /\ chain' = PreState]_vars

(* C21 witness: a mintTrack made as a transaction of its own, whose token   *)
(* the administrator accepted, was rejected on an album at its cap; the     *)
(* slot is unfilled and the next token id is not in use.                    *)
C21_Witness ==
    /\ last.fn = "mintTrack"
    /\ last.err = "CapacityExceeded"
    /\ last.depth = 0
    /\ last.accepted
    /\ chain.albums[last.args.albumId].currentSupply
          = chain.albums[last.args.albumId].maxSupply
    /\ ~chain.albums[last.args.albumId].trackExists[last.args.trackNumber]
    /\ ~_exists(chain, last.loc.newTokenId)

(* C22: the administrator's mintAdditionalCopy, with the ledger Active,     *)
(* fails with NotFound when the album or the slot is absent and with        *)
(* CapacityExceeded when the currentSupply of the track or of the album has *)
(* reached its cap, and changes nothing; a successful one raises the        *)
(* currentSupply of the track and that of the album by one each in the one  *)
(* step in which it returns, while it is suspended neither has moved, and   *)
(* in no step does the currentSupply of a track record move otherwise       *)
(* (other than in the record a successful mint writes for its new token),   *)
(* nor that of an album other than by one and in the return of a            *)
(* successful mint (but for the failure of a call that restores the state   *)
(* at its entry).                                                           *)
C22_CopyCountsBothOrNeither ==
    [][/\ (/\ CallEnds
           /\ last'.fn = "mintAdditionalCopy"
           /\ last'.sender = PreState._owner
           /\ ~PreState._paused) =>
             LET a == last'.args
                 s == PreState
                 track == s.tracks[s.albumTrackToToken[a.albumId][a.trackNumber]]
             IN  /\ (~AlbumExists(s, a.albumId) \/ ~TrackExists(s, a.albumId, a.trackNumber))
                       => last'.err = "NotFound" /\ chain' = s
                 /\ (/\ AlbumExists(s, a.albumId)
                     /\ TrackExists(s, a.albumId, a.trackNumber)
                     /\ \/ track.currentSupply >= track.maxSupply
                        \/ s.albums[a.albumId].currentSupply >= s.albums[a.albumId].maxSupply)
                       => last'.err = "CapacityExceeded" /\ chain' = s
       /\ (CallEnds /\ last'.fn = "mintAdditionalCopy" /\ last'.err = "ok") =>
             LET a == last'.args
                 t == last'.loc.originalTokenId
             IN  /\ t = chain.albumTrackToToken[a.albumId][a.trackNumber]
                 /\ chain'.tracks[t].currentSupply = chain.tracks[t].currentSupply + 1
                 /\ chain'.albums[a.albumId].currentSupply
                       = chain.albums[a.albumId].currentSupply + 1
       /\ (Len(stack') > Len(stack) /\ stack'[Len(stack')].fn = "mintAdditionalCopy") =>
             /\ \A t \in TokenSlots :
                    chain'.tracks[t].currentSupply = chain.tracks[t].currentSupply
             /\ \A a \in AlbumSlots :
                    chain'.albums[a].currentSupply = chain.albums[a].currentSupply
       /\ \A t \in TokenSlots :
             chain'.tracks[t].currentSupply # chain.tracks[t].currentSupply =>
                 \/ /\ CallEnds /\ last'.fn = "mintAdditionalCopy" /\ last'.err = "ok"
                    /\ t = last'.loc.originalTokenId
                 \/ /\ CallEnds /\ last'.fn \in {"mintTrack", "mintAdditionalCopy"}
                    /\ last'.err = "ok" /\ t = last'.loc.newTokenId
                 \/ FrameEnds /\ last'.err # "ok" /\ chain' = PreState
       /\ \A a \in AlbumSlots :
             chain'.albums[a].currentSupply # chain.albums[a].currentSupply =>
                 \/ /\ CallEnds /\ last'.fn \in {"mintTrack", "mintAdditionalCopy"}
                    /\ last'.err = "ok" /\ last'.args.albumId = a
                    /\ chain'.albums[a].currentSupply = chain.albums[a].currentSupply + 1
                 \/ FrameEnds /\ last'.err # "ok" /\ chain' = PreState]_vars

(* C22 witness: a mintAdditionalCopy has just been rejected by the cap of   *)
(* the track, which an earlier copy had reached together with a count of    *)
(* two in the album, below the album's cap.                                 *)
C22_Witness ==
    /\ last.fn = "mintAdditionalCopy"
    /\ last.err = "CapacityExceeded"
    /\ LET a == last.args
           track == chain.tracks[chain.albumTrackToToken[a.albumId][a.trackNumber]]
       IN  /\ track.currentSupply = 2
           /\ track.currentSupply = track.maxSupply
           /\ chain.albums[a.albumId].currentSupply = 2
           /\ chain.albums[a.albumId].currentSupply < chain.albums[a.albumId].maxSupply

(* The receiver's hook of the mint that ends in this step made no change:   *)
(* the state at its return is the state at the mint's entry plus the token  *)
(* counter and the holder of the new token.                                 *)
HookLeftStateAlone ==
    /\ FrameEnds
    /\ chain = [PreState EXCEPT !._tokenIds = PreState._tokenIds + 1,
                                !._owners[PreState._tokenIds + 1] = Top.sender]

C24_OneCreatorPerTrack ==
    [][/\ AtRest' =>
             \A t1, t2 \in Issued(chain') :
                 (/\ chain'.tracks[t1].albumId = chain'.tracks[t2].albumId
                  /\ chain'.tracks[t1].trackNumber = chain'.tracks[t2].trackNumber)
                     => chain'.tracks[t1].creator = chain'.tracks[t2].creator
       /\ (CallEnds /\ last'.fn = "mintTrack" /\ last'.err = "ok") =>
             chain'.tracks[last'.ret].creator = last'.sender
       /\ (CallEnds /\ last'.fn = "mintAdditionalCopy" /\ last'.err = "ok") =>
             chain'.tracks[last'.ret].creator
                 = chain.tracks[last'.loc.originalTokenId].creator
       /\ \A t \in TokenSlots :
             (chain.tracks[t].creator # ZERO
                 /\ chain'.tracks[t].creator # chain.tracks[t].creator) =>
                     FrameEnds /\ last'.err # "ok" /\ chain' = PreState]_vars

(* A purchase of token t passes its checks in this step and hands t to the  *)
(* buyer.                                                                   *)
PurchaseTakes(t) ==
    /\ Len(stack') > Len(stack)
    /\ stack'[Len(stack')].fn = "purchaseTrack"
    /\ stack'[Len(stack')].args.tokenId = t
    /\ chain'._owners[t] = stack'[Len(stack')].sender

(* A transfer of token t by its holder completes in this step. *)
HolderTransfers(t) ==
    /\ CallEnds
    /\ last'.fn = "transferFrom"
    /\ last'.err = "ok"
    /\ last'.args.tokenId = t
    /\ last'.sender = chain._owners[t]
    /\ chain'._owners[t] = last'.args.to

(* The call that ends in this step failed and the state is again the one    *)
(* at its entry.                                                            *)
RolledBack == FrameEnds /\ last'.err # "ok" /\ chain' = PreState

Listing(s, t) == <<s.tracks[t].minPrice, s.tracks[t].isForSale>>

(* C26 as stated: after a successful updateTrackPrice,                      *)
(* updateTrackSaleStatus or purchase of a token made as a transaction of    *)
(* its own, all tokens issued for the same (albumId, trackNumber) hold the  *)
(* same minPrice and the same isForSale.                                    *)
C26_ListingSharedByCopies ==
    [][(/\ CallEnds
        /\ last'.fn \in {"updateTrackPrice", "updateTrackSaleStatus", "purchaseTrack"}
        /\ last'.err = "ok"
        /\ AtRest') =>
         LET t == last'.args.tokenId
         IN  \A u \in CopiesOf(chain', chain'.tracks[t].albumId, chain'.tracks[t].trackNumber) :
                 Listing(chain', u) = Listing(chain', t)]_vars

(* C26 amended: price and sale flag are held per token.  A successful       *)
(* updateTrackPrice or updateTrackSaleStatus of token t writes the minPrice *)
(* or the isForSale of t's record and nothing else, a successful purchase   *)
(* of t clears the isForSale of t's record and of no other, and a copy      *)
(* starts with the minPrice that the track's record holds when the copy is  *)
(* minted and for sale; the price and the flag of a record change in no     *)
(* other step (but for the failure of a call that restores the state at     *)
(* its entry).                                                              *)
C26_ListingHeldPerToken ==
    [][/\ (CallEnds /\ last'.fn = "updateTrackPrice" /\ last'.err = "ok") =>
             chain' = [chain EXCEPT !.tracks[last'.args.tokenId].minPrice
                                        = last'.args.newMinPrice]
       /\ (CallEnds /\ last'.fn = "updateTrackSaleStatus" /\ last'.err = "ok") =>
             chain' = [chain EXCEPT !.tracks[last'.args.tokenId].isForSale
                                        = last'.args.isForSale]
       /\ (CallEnds /\ last'.fn = "purchaseTrack" /\ last'.err = "ok") =>
             chain'.tracks = [chain.tracks EXCEPT ![last'.args.tokenId].isForSale = FALSE]
       /\ (CallEnds /\ last'.fn = "mintAdditionalCopy" /\ last'.err = "ok") =>
             Listing(chain', last'.ret)
                 = <<chain.tracks[last'.loc.originalTokenId].minPrice, TRUE>>
       /\ \A t \in TokenSlots :
             Listing(chain', t) # Listing(chain, t) =>
                 \/ /\ CallEnds /\ last'.err = "ok" /\ last'.depth = Len(stack')
                    /\ \/ /\ last'.fn \in {"updateTrackPrice", "updateTrackSaleStatus",
                                          "purchaseTrack"}
                          /\ last'.args.tokenId = t
                       \/ /\ last'.fn \in {"mintTrack", "mintAdditionalCopy"}
                          /\ last'.ret = t
                 \/ RolledBack]_vars

(* C26 witness: the price of the first copy of a track has just been set to *)
(* 200 in a transaction of its own, and the second copy of the same track   *)
(* still holds 100.                                                         *)
C26_Witness ==
    /\ last.fn = "updateTrackPrice"
    /\ last.err = "ok"
    /\ last.depth = 0
    /\ AtRest
    /\ 2 \in CopiesOf(chain, chain.tracks[1].albumId, chain.tracks[1].trackNumber)
    /\ chain.tracks[last.args.tokenId].minPrice = 200
    /\ chain.tracks[2].minPrice = 100
    /\ chain.tracks[2].currentSupply = 2

(* What identifies album a in s: whether it exists, its name, its uri and   *)
(* its number of track slots.                                               *)
AlbumIdentity(s, a) ==
    <<s.albums[a].exists, s.albums[a].name, s.albums[a].uri, s.albums[a].totalTracks>>

(* C27: an album that exists keeps its id (it goes on existing under it),   *)
(* its name, its uri and its totalTracks in every step; its maxSupply       *)
(* changes only in a successful setAlbumMaxSupply of the administrator for  *)
(* it, which sets it to the value given and changes nothing else; its       *)
(* currentSupply changes only in the return of a successful mintTrack or    *)
(* mintAdditionalCopy for it; its filled slots change only in the return of *)
(* a successful mintTrack for it (each but for the failure of a call that   *)
(* restores the state at its entry).                                        *)
C27_AlbumIdentityFixed ==
    [][\A a \in Created(chain) :
          /\ AlbumIdentity(chain', a) # AlbumIdentity(chain, a) => RolledBack
          /\ chain'.albums[a].maxSupply # chain.albums[a].maxSupply =>
                \/ /\ CallEnds /\ last'.fn = "setAlbumMaxSupply" /\ last'.err = "ok"
                   /\ last'.sender = chain._owner
                   /\ last'.args.albumId = a
                   /\ chain' = [chain EXCEPT !.albums[a].maxSupply = last'.args.newMaxSupply]
                \/ RolledBack
          /\ chain'.albums[a].currentSupply # chain.albums[a].currentSupply =>
                \/ /\ CallEnds /\ last'.fn \in {"mintTrack", "mintAdditionalCopy"}
                   /\ last'.err = "ok"
                   /\ last'.args.albumId = a
                \/ RolledBack
          /\ chain'.albums[a].trackExists # chain.albums[a].trackExists =>
                \/ /\ CallEnds /\ last'.fn = "mintTrack" /\ last'.err = "ok"
                   /\ last'.args.albumId = a
                \/ RolledBack]_vars

(* C27 witness: the administrator has just lowered the cap of an album that *)
(* holds a token; the album has the name, the uri and the totalTracks it    *)
(* was created with.                                                        *)
C27_Witness ==
    /\ last.fn = "setAlbumMaxSupply"
    /\ last.err = "ok"
    /\ LET album == chain.albums[last.args.albumId]
       IN  /\ AlbumIdentity(chain, last.args.albumId)
                = <<TRUE, ValidAlbum.name, ValidAlbum.uri, ValidAlbum.totalTracks>>
           /\ album.maxSupply = last.args.newMaxSupply
           /\ album.maxSupply # ValidAlbum.maxSupply
           /\ album.currentSupply = 1
           /\ album.trackExists[1]

(* The filled slots of album a in s up to and including slot n. *)
FilledUpTo(s, a, n) == {m \in FilledSlots(s, a) : m <= n}

(* C28: getAlbumTracks of an album that exists returns one entry per filled *)
(* slot and nothing else, in ascending order of track number, each entry    *)
(* being the record of the track (with its currentSupply, minPrice and      *)
(* isForSale as they are now); for an album that does not exist it fails    *)
(* with NotFound; and it changes nothing.                                   *)
C28_ListsFilledSlotsOnly ==
    [][(CallEnds /\ last'.fn = "getAlbumTracks") =>
         LET a == last'.args.albumId
             list == last'.view.list
         IN  /\ chain' = chain
             /\ IF ~AlbumExists(chain, a)
                THEN last'.err = "NotFound"
                ELSE /\ last'.err = "ok"
                     /\ DOMAIN list = 1 .. Cardinality(FilledSlots(chain, a))
                     /\ \A n \in FilledSlots(chain, a) :
                            list[Cardinality(FilledUpTo(chain, a, n))]
                                = chain.tracks[chain.albumTrackToToken[a][n]]]_vars

(* The preconditions of the call c other than the pause and the identity   *)
(* of the caller hold in s.                                                 *)
OtherwiseAllowed(s, c) ==
    LET a == c.args
    IN  CASE c.fn = "purchaseTrack" ->
                 FirstViolated(s, c.sender, a.tokenId, c.value) = "none"
          [] c.fn = "mintTrack" ->
                 /\ AlbumExists(s, a.albumId)
                 /\ a.trackNumber \in 1 .. s.albums[a.albumId].totalTracks
                 /\ ~TrackExists(s, a.albumId, a.trackNumber)
                 /\ a.name # "" /\ a.uri # "" /\ a.maxSupply > 0
          [] c.fn = "mintAdditionalCopy" ->
                 /\ AlbumExists(s, a.albumId)
                 /\ TrackExists(s, a.albumId, a.trackNumber)
                 /\ LET track == s.tracks[s.albumTrackToToken[a.albumId][a.trackNumber]]
                    IN  track.currentSupply < track.maxSupply
                 /\ s.albums[a.albumId].currentSupply < s.albums[a.albumId].maxSupply
          [] OTHER -> TRUE

(* The call that the pause had turned down is made again in this step. *)
RetryStep == last.retry = "pending" /\ (last'.retry = "done" \/ Len(stack') > Len(stack))

(* A call that was made again ends in this step. *)
RetryEnds == last'.retry = "done" /\ last' # last

(* C29 as stated: a call that failed with SystemPaused as a transaction of  *)
(* its own and is made again right after the administrator's unpause, with  *)
(* nothing else in between, succeeds.                                       *)
C29_RetrySucceeds ==
    [][/\ RetryStep => (Len(stack') > Len(stack) \/ last'.err = "ok")
       /\ RetryEnds => last'.err = "ok"]_vars

(* C29 amended: whenever the ledger is paused between transactions the      *)
(* administrator's unpause succeeds and makes it Active, changing nothing   *)
(* else; a call that failed with SystemPaused and is made again right after *)
(* that unpause is not turned down by the pause: it passes its checks when  *)
(* its other preconditions hold in that state, and otherwise fails with     *)
(* the error of one of them and changes nothing; a call made again never    *)
(* ends with SystemPaused, and a purchase or an additional copy made again  *)
(* that passed its checks succeeds when the accounts it hands control to    *)
(* accept.                                                                  *)
C29_RetryNotRefusedByPause ==
    [][/\ (AtRest /\ chain._paused) =>
             LET out == Enter(chain, "unpause", chain._owner, NoArgs, 0)
             IN  out.err = "ok" /\ out.st = Active(chain)
       /\ (last.retry = "no" /\ last'.retry = "pending") =>
             chain._paused /\ chain' = Active(chain)
       /\ RetryStep =>
             /\ ~chain._paused
             /\ IF OtherwiseAllowed(chain, last)
                THEN /\ Len(stack') > Len(stack) \/ last'.err = "ok"
                     /\ Len(stack') > Len(stack) =>
                            LET fr == stack'[Len(stack')]
                            IN  <<fr.fn, fr.sender, fr.args, fr.value>>
                                    = <<last.fn, last.sender, last.args, last.value>>
                ELSE /\ last'.err \notin {"ok", "SystemPaused", "Unauthorized"}
                     /\ <<last'.fn, last'.sender, last'.args, last'.value>>
                            = <<last.fn, last.sender, last.args, last.value>>
                     /\ chain' = chain
                     /\ stack' = stack
       /\ RetryEnds =>
             /\ last'.err # "SystemPaused"
             /\ (/\ Len(stack') < Len(stack)
                 /\ last'.fn \in {"purchaseTrack", "mintAdditionalCopy"}
                 /\ last'.accepted) => last'.err = "ok"]_vars

(* C29 witness: a purchase that had failed with SystemPaused was made again *)
(* after the unpause and has just succeeded.                                *)
C29_Witness ==
    /\ last.retry = "done"
    /\ last.fn = "purchaseTrack"
    /\ last.err = "ok"
    /\ ~chain._paused
    /\ chain._owners[last.args.tokenId] = last.sender

----------------------------------------------------------------------------
(* The operations that the log is kept for, and the kinds of their events *)
Mutations ==
    {"createAlbum", "mintTrack", "mintAdditionalCopy", "updateTrackPrice",
     "updateTrackSaleStatus", "purchaseTrack", "setRoyalty", "setTrackMaxSupply",
     "setAlbumMaxSupply"}

(* The event that the completed call c is to have emitted, s being the     *)
(* state it left: its kind, the identifiers it was called with or returned *)
(* and the values it set.                                                  *)
AuditRecord(c, s) ==
    CASE c.fn = "createAlbum" ->
            AlbumCreated(c.ret, c.args.name, c.args.totalTracks, c.args.maxSupply)
      [] c.fn = "mintTrack" ->
            TrackMinted(c.ret, c.args.albumId, c.args.trackNumber, c.args.name, c.sender)
      [] c.fn = "mintAdditionalCopy" ->
            TrackMinted(c.ret, c.args.albumId, c.args.trackNumber, s.tracks[c.ret].name,
                        c.sender)
      [] c.fn = "updateTrackPrice" -> TrackMinPriceUpdated(c.args.tokenId, c.args.newMinPrice)
      [] c.fn = "updateTrackSaleStatus" ->
            TrackSaleStatusUpdated(c.args.tokenId, c.args.isForSale)
      [] c.fn = "purchaseTrack" -> TrackPurchased(c.args.tokenId, c.sender, c.value)
      [] c.fn = "setRoyalty" -> RoyaltyUpdated(c.args.creatorRoyalty, c.args.sellerRoyalty)
      [] c.fn = "setTrackMaxSupply" ->
            MaxSupplyUpdated(c.args.albumId, c.args.trackNumber, c.args.newMaxSupply)
      [] c.fn = "setAlbumMaxSupply" ->
            MaxSupplyUpdated(c.args.albumId, 0, c.args.newMaxSupply)

IsPrefix(p, q) == Len(p) <= Len(q) /\ SubSeq(q, 1, Len(p)) = p

(* What the log held for the call that ends in this step, before the step: *)
(* the events gathered while it was suspended, or nothing when it ran      *)
(* without suspending.                                                     *)
LogBefore == IF Len(stack') < Len(stack) THEN Top.log ELSE <<>>

(* C30: the log only grows, by appending.  A successful createAlbum,       *)
(* mintTrack, mintAdditionalCopy, updateTrackPrice, updateTrackSaleStatus, *)
(* purchaseTrack, setRoyalty, setTrackMaxSupply or setAlbumMaxSupply adds  *)
(* one event of its kind, last, carrying the identifiers and values of the *)
(* call, and hands its events on to the call enclosing it; a call that     *)
(* fails leaves no event, in its own record or in the enclosing call's.    *)
(* Until it ends, a suspended call has emitted nothing but the Transfer of *)
(* its token.                                                              *)
C30_AuditLogOneRecordPerMutation ==
    [][/\ (CallEnds /\ last'.fn \in Mutations /\ last'.err = "ok") =>
             /\ last'.log = Append(LogBefore, AuditRecord(last', chain'))
             /\ stack' # <<>> =>
                   stack'[Len(stack')].log = stack[Len(stack')].log \o last'.log
       /\ (CallEnds /\ last'.err # "ok") =>
             /\ last'.log = <<>>
             /\ \A i \in DOMAIN stack' : stack'[i].log = stack[i].log
       /\ Len(stack') > Len(stack) =>
             /\ Len(Top'.log) = 1
             /\ Top'.log[1].kind = "Transfer"
             /\ \A i \in DOMAIN stack : stack'[i].log = stack[i].log
       /\ (Len(stack') = Len(stack) /\ last' = NoCall) =>
             \A i \in DOMAIN stack : stack'[i].log = stack[i].log
       /\ \A i \in DOMAIN stack' \cap DOMAIN stack : IsPrefix(stack[i].log, stack'[i].log)
      ]_vars

(* A purchase has completed and left the transfer of the token and then    *)
(* its own record, with the token, the buyer and the amount paid.          *)
C30_Witness ==
    /\ last.fn = "purchaseTrack"
    /\ last.err = "ok"
    /\ last.log = <<Transfer(chain.tracks[last.args.tokenId].creator, last.sender,
                             last.args.tokenId),
                    TrackPurchased(last.args.tokenId, last.sender, last.value)>>

----------------------------------------------------------------------------
(* What getTrackSupply returns for the track in slot n of album a: the     *)
(* current and the maximum supply.                                         *)
TrackSupply(s, a, n) == getTrackSupply(s, [albumId |-> a, trackNumber |-> n]).view.nums

(* C31: between transactions, the record of every token of a track holds   *)
(* the currentSupply and maxSupply that getTrackSupply returns for the     *)
(* track.  The tracks looked at are those whose tokens number as many as   *)
(* the current supply returned, as they do after one mintTrack and any     *)
(* number of mintAdditionalCopy.                                           *)
C31_CopyRecordsAgreeWithTrackSupply ==
    AtRest =>
       \A a \in Albums, n \in 1 .. MaxTrackNo :
          (/\ AlbumExists(chain, a)
           /\ TrackExists(chain, a, n)
           /\ Cardinality(CopiesOf(chain, a, n)) = TrackSupply(chain, a, n)[1]) =>
             \A t \in CopiesOf(chain, a, n) :
                <<chain.tracks[t].currentSupply, chain.tracks[t].maxSupply>>
                   = TrackSupply(chain, a, n)

----------------------------------------------------------------------------
(* C32: the token that a successful mintAdditionalCopy creates is for      *)
(* sale, whether or not the track's first token is, and its minPrice is    *)
(* the first token's minPrice as the mint completes; a successful          *)
(* updateTrackPrice or updateTrackSaleStatus leaves the record of every    *)
(* token other than the one it names as it was.                            *)
C32_CopyForSaleAtFirstCopysPrice ==
    [][/\ (CallEnds /\ last'.fn = "mintAdditionalCopy" /\ last'.err = "ok") =>
             /\ chain'.tracks[last'.ret].isForSale
             /\ chain'.tracks[last'.ret].minPrice
                   = chain'.tracks[last'.loc.originalTokenId].minPrice
             /\ chain'.tracks[last'.ret].minPrice
                   = chain.tracks[last'.loc.originalTokenId].minPrice
       /\ (/\ CallEnds
           /\ last'.fn \in {"updateTrackPrice", "updateTrackSaleStatus"}
           /\ last'.err = "ok") =>
             \A u \in TokenSlots \ {last'.args.tokenId} : chain'.tracks[u] = chain.tracks[u]
      ]_vars

(* A copy has been minted, and is for sale, of a track whose first token   *)
(* is not.                                                                 *)
C32_Witness ==
    /\ last.fn = "mintAdditionalCopy"
    /\ last.err = "ok"
    /\ last.ret # last.loc.originalTokenId
    /\ ~chain.tracks[last.loc.originalTokenId].isForSale
    /\ chain.tracks[last.ret].isForSale

----------------------------------------------------------------------------
(* The arguments that createAlbum lets through *)
ValidAlbumArgs(a) == a.name # "" /\ a.uri # "" /\ a.totalTracks > 0 /\ a.maxSupply > 0

(* C33: createAlbum called by the administrator with valid arguments while *)
(* the ledger is paused succeeds, and returns and leaves what it would     *)
(* have with the ledger active, the pause flag apart: the next album id,   *)
(* and under it the album with the arguments, no supply and no slot        *)
(* filled.                                                                 *)
C33_CreateAlbumWhilePaused ==
    [][(/\ CallEnds
        /\ last'.fn = "createAlbum"
        /\ chain._paused
        /\ last'.sender = chain._owner
        /\ ValidAlbumArgs(last'.args)) =>
          LET active == createAlbum([chain EXCEPT !._paused = FALSE], last'.sender,
                                    last'.args)
              id == chain._albumIds + 1
          IN  /\ last'.err = "ok"
              /\ last'.ret = id
              /\ last'.ret = active.ret
              /\ chain' = [active.st EXCEPT !._paused = TRUE]
              /\ chain'._albumIds = id
              /\ chain'.albums[id].exists
              /\ chain'.albums[id].name = last'.args.name
              /\ chain'.albums[id].uri = last'.args.uri
              /\ chain'.albums[id].totalTracks = last'.args.totalTracks
              /\ chain'.albums[id].maxSupply = last'.args.maxSupply
              /\ chain'.albums[id].currentSupply = 0
              /\ \A n \in TrackNos : ~chain'.albums[id].trackExists[n]]_vars

(* An album has been created while the ledger is paused. *)
C33_Witness ==
    /\ last.fn = "createAlbum"
    /\ last.err = "ok"
    /\ chain._paused
    /\ chain.albums[last.ret].exists

----------------------------------------------------------------------------
(* The deployment script of the album contract (scripts/deploy.js).  It    *)
(* deploys the contract, reads albums.json, and for every entry creates    *)
(* the album and mints the tracks of the entry's metadata file.  Its       *)
(* transactions are sent by the deployer, an externally owned account,     *)
(* one at a time, each awaited before the next.                            *)

(* A transaction from its entry to its end, the account that is handed     *)
(* control accepting at once.                                              *)
Transact(s, fn, sender, a) ==
    LET out == Enter(s, fn, sender, a, 0)
        fr == [fn |-> fn, sender |-> sender, args |-> a, value |-> 0, snap |-> s,
               pc |-> out.pc, to |-> out.to, loc |-> out.loc, nested |-> 0,
               relayed |-> 0, blocked |-> {}, retry |-> "no", log |-> out.log]
    IN  IF out.kind = "done" THEN out ELSE Resume(out.st, fr, TRUE)

(* Bounds of the files the script reads *)
MaxEntries == 2

(* A key of albums.json is a string of decimal digits, here the sequence    *)
(* of its digits.                                                          *)
Keys == {<<1>>, <<2>>, <<0, 1>>}

(* parseInt of a string of decimal digits *)
RECURSIVE parseInt(_)
parseInt(k) ==
    IF k = <<>> THEN 0
    ELSE 10 * parseInt(SubSeq(k, 1, Len(k) - 1)) + k[Len(k)]

(* A key that is the canonical decimal form of an integer is an array      *)
(* index.                                                                  *)
IsArrayIndex(k) == Len(k) = 1 \/ k[1] # 0

(* The members of S in ascending order of rank *)
RECURSIVE Ascending(_, _)
Ascending(S, rank) ==
    IF S = {} THEN <<>>
    ELSE LET m == CHOOSE x \in S : \A y \in S : rank[x] <= rank[y]
         IN  <<m>> \o Ascending(S \ {m}, rank)

(* Object.entries of the object that JSON.parse makes of a file whose      *)
(* entries are f, in the order of the file: the array-index keys first, in *)
(* ascending numeric order, then the other keys in the order of the file.  *)
ObjectEntries(f) ==
    LET index == {i \in DOMAIN f : IsArrayIndex(f[i].key)}
        byValue == Ascending(index, [i \in DOMAIN f |-> parseInt(f[i].key)])
        byPlace == Ascending(DOMAIN f \ index, [i \in DOMAIN f |-> i])
    IN  [n \in 1 .. Len(f) |-> f[(byValue \o byPlace)[n]]]

(* v || d *)
OrElse(v, d) == IF v = 0 THEN d ELSE v

(* An entry of albums.json: its key, the album's name, cover, number of    *)
(* tracks and maxSupply (0 when absent), and the track numbers of the      *)
(* entry's metadata file (metadata), when there is one (hasMetadata).      *)
AlbumEntries ==
    [key : Keys, name : {"Demo", ""}, cover : {"uri://a"}, tracks : {2},
     maxSupply : {0, 3}, hasMetadata : BOOLEAN, metadata : {<<1>>, <<1, 2>>}]

AlbumFiles ==
    {f \in UNION {[1 .. n -> AlbumEntries] : n \in 1 .. MaxEntries} :
        \A i, j \in DOMAIN f : i # j => f[i].key # f[j].key}

(* The script has deployed the contract and read albums.json. *)
InitAlbumScript ==
    /\ chain = constructor(10, 90)
    /\ stack = <<>>
    /\ last = NoCall
    /\ ncalls = 0
    /\ \E f \in AlbumFiles :
          script = [pc |-> "createAlbum", albums |-> ObjectEntries(f), i |-> 1, j |-> 0,
                    created |-> 0, minted |-> <<>>]

(* The script with the loop over the entries at its next iteration, or     *)
(* past its end.                                                           *)
NextEntry(sc) ==
    [sc EXCEPT !.i = @ + 1, !.j = 0, !.created = 0,
               !.pc = IF sc.i + 1 > Len(sc.albums) THEN "done" ELSE "createAlbum"]

(* The script creates the album of the entry it is at.  When the call      *)
(* fails, the entry is given up.                                           *)
ScriptCreateAlbum ==
    /\ script.pc = "createAlbum"
    /\ LET albumInfo == script.albums[script.i]
       IN  \E out \in {Transact(chain, "createAlbum", Deployer,
                                [name |-> albumInfo.name, uri |-> albumInfo.cover,
                                 totalTracks |-> albumInfo.tracks,
                                 maxSupply |-> OrElse(albumInfo.maxSupply, 1000)])} :
              /\ out.err = "ok" => chain._albumIds < MaxAlbums
              /\ chain' = out.st
              /\ script' = IF out.err = "ok"
                           THEN [script EXCEPT !.pc = "metadata", !.created = out.ret]
                           ELSE NextEntry(script)
    /\ UNCHANGED <<stack, last, ncalls>>

(* The script looks for the metadata file of the entry, and goes on to the *)
(* next entry when there is none.                                          *)
ScriptReadMetadata ==
    /\ script.pc = "metadata"
    /\ script' = IF script.albums[script.i].hasMetadata
                 THEN [script EXCEPT !.pc = "mintTrack", !.j = 1]
                 ELSE NextEntry(script)
    /\ UNCHANGED <<chain, stack, last, ncalls>>

(* The script mints the next track of the metadata file, into the album    *)
(* whose id is the number read from the entry's key, and goes on to the    *)
(* next track whether or not the call succeeds.  minted records the calls: *)
(* the entry, the album id passed, the id that createAlbum assigned for    *)
(* the entry, and how the call ended.                                      *)
ScriptMintTrack ==
    /\ script.pc = "mintTrack"
    /\ script.j <= Len(script.albums[script.i].metadata)
    /\ chain._tokenIds < MaxTokens
    /\ LET albumInfo == script.albums[script.i]
           numericAlbumId == parseInt(albumInfo.key)
           trackNumber == albumInfo.metadata[script.j]
       IN  \E out \in {Transact(chain, "mintTrack", Deployer,
                                [albumId |-> numericAlbumId, trackNumber |-> trackNumber,
                                 name |-> "T1", uri |-> "uri://t1", minPrice |-> 100,
                                 maxSupply |-> OrElse(0, 100)])} :
              /\ chain' = out.st
              /\ script' = [script EXCEPT
                               !.j = @ + 1,
                               !.minted = Append(@, [entry |-> script.i,
                                                     passed |-> numericAlbumId,
                                                     assigned |-> script.created,
                                                     err |-> out.err])]
    /\ UNCHANGED <<stack, last, ncalls>>

(* The tracks of the entry are done. *)
ScriptTracksDone ==
    /\ script.pc = "mintTrack"
    /\ script.j > Len(script.albums[script.i].metadata)
    /\ script' = NextEntry(script)
    /\ UNCHANGED <<chain, stack, last, ncalls>>

NextAlbumScript ==
    \/ ScriptCreateAlbum
    \/ ScriptReadMetadata
    \/ ScriptMintTrack
    \/ ScriptTracksDone

SpecAlbumScript == InitAlbumScript /\ [][NextAlbumScript]_vars

(* C34: every mintTrack call of the script passes the album id that the    *)
(* createAlbum call made for the same entry of albums.json was assigned.   *)
C34_TracksMintedIntoTheirAlbum ==
    \A k \in DOMAIN script.minted : script.minted[k].passed = script.minted[k].assigned

----------------------------------------------------------------------------
(* The mint script of the contract without albums (scripts/mint.js).  It   *)
(* attaches to the deployed contract, and for every metadata file reads    *)
(* the records of the tokens minted so far, and mints the song unless one  *)
(* of them bears its name.  A read goes over the network and may fail with *)
(* an error, which the script logs before it goes on with the next token.  *)

(* getMusicByTokenId of the contract without albums *)
getMusicByTokenId(s, a) ==
    IF ~_exists(s, a.tokenId) THEN Fails(s, "NotFound")
    ELSE Returns(s, [NoView EXCEPT !.text = s.musicCollection[a.tokenId].name])

(* Bound of the number of times the script is run *)
MaxRuns == 3

(* The metadata files of the directory, one for a song: the songId and     *)
(* songName of each                                                        *)
Songs == [songId : {"K1", "K2", "K3"}, songName : {"Song"}]

MetadataDirs ==
    {d \in UNION {[1 .. n -> Songs] : n \in 1 .. MaxEntries} :
        \A i, j \in DOMAIN d : i # j => d[i] # d[j]}

(* The name a song is minted under *)
MintName(metadata) == metadata.songId \o "-" \o metadata.songName

(* The script at the head of the loop body for file f of run r. *)
AtFile(sc, r, f) ==
    [sc EXCEPT !.run = r, !.file = f, !.pc = "totalSupply", !.totalSupply = 0, !.i = 0,
               !.isAlreadyMinted = FALSE]

(* The contract is deployed and the script is run for the first time. *)
InitMintScript ==
    /\ chain = constructorMusic
    /\ stack = <<>>
    /\ last = NoCall
    /\ ncalls = 0
    /\ \E d \in MetadataDirs :
          script = [pc |-> "totalSupply", metadataFiles |-> d, run |-> 1, file |-> 1,
                    totalSupply |-> 0, i |-> 0, isAlreadyMinted |-> FALSE]

(* The script reads the number of tokens before the scan. *)
ScriptTotalSupply ==
    /\ script.pc = "totalSupply"
    /\ script' = [script EXCEPT !.pc = "scan", !.i = 1,
                                !.totalSupply = totalSupply(chain).view.nums[1],
                                !.isAlreadyMinted = FALSE]
    /\ UNCHANGED <<chain, stack, last, ncalls>>

(* The script reads the record of token i: the read returns (reached) and  *)
(* the name is compared, or it fails and the token is passed over.         *)
ScriptScan(reached) ==
    /\ script.pc = "scan"
    /\ script.i <= script.totalSupply
    /\ \E existingMusic \in {getMusicByTokenId(chain, [tokenId |-> script.i])} :
          script' = IF reached /\ existingMusic.err = "ok"
                       /\ existingMusic.view.text
                             = MintName(script.metadataFiles[script.file])
                    THEN [script EXCEPT !.isAlreadyMinted = TRUE, !.pc = "mint"]
                    ELSE [script EXCEPT !.i = @ + 1]
    /\ UNCHANGED <<chain, stack, last, ncalls>>

ScriptScanReached == ScriptScan(TRUE)

ScriptScanFailed == ScriptScan(FALSE)

(* The scan has gone through the tokens without a match. *)
ScriptScanDone ==
    /\ script.pc = "scan"
    /\ script.i > script.totalSupply
    /\ script' = [script EXCEPT !.pc = "mint"]
    /\ UNCHANGED <<chain, stack, last, ncalls>>

(* The script mints the song unless the scan found it, logging a failure   *)
(* of the call, and goes on to the next file; after the last file the run  *)
(* ends and the script may be run again.                                   *)
ScriptMintMusic ==
    /\ script.pc = "mint"
    /\ ~script.isAlreadyMinted => chain._tokenIds < MaxTokens
    /\ LET metadata == script.metadataFiles[script.file]
           out == Transact(chain, "mintMusic", Deployer,
                           [name |-> MintName(metadata), uri |-> "uri://s",
                            minPrice |-> 100])
       IN  chain' = IF script.isAlreadyMinted THEN chain ELSE out.st
    /\ script' = IF script.file < Len(script.metadataFiles)
                 THEN AtFile(script, script.run, script.file + 1)
                 ELSE [script EXCEPT !.pc = "done"]
    /\ UNCHANGED <<stack, last, ncalls>>

ScriptRunAgain ==
    /\ script.pc = "done"
    /\ script.run < MaxRuns
    /\ script' = AtFile(script, script.run + 1, 1)
    /\ UNCHANGED <<chain, stack, last, ncalls>>

NextMintScript ==
    \/ ScriptTotalSupply
    \/ ScriptScanReached
    \/ ScriptScanFailed
    \/ ScriptScanDone
    \/ ScriptMintMusic
    \/ ScriptRunAgain

SpecMintScript == InitMintScript /\ [][NextMintScript]_vars

(* The tokens minted under the name n *)
MintedAs(s, n) == {t \in TokenSlots : _exists(s, t) /\ s.musicCollection[t].name = n}

(* C35: however many times the script is run over the same metadata files, *)
(* and whether or not the reads of its scans fail, no song name is borne   *)
(* by more than one token.                                                 *)
C35_EachSongMintedAtMostOnce ==
    \A m \in Songs : Cardinality(MintedAs(chain, MintName(m))) <= 1

====
